---- MODULE Spec2Model ----
(***************************************************************************)
(* A model of the pfs sharder (src/src/pkg/shard/sharder.go): the          *)
(* AssignRoles controller working against the discovery store, and the     *)
(* per-node Register loops (heartbeat, role install, cancel); of the local *)
(* block and diff store (src/src/pfs/drive/server/local.go); and of the    *)
(* API gateway (src/src/pfs/route/route.go).                               *)
(***************************************************************************)
EXTENDS Integers, Sequences, FiniteSets, TLC

\* ---------------------------------------------------------------- bounds
MaxServers == 3
MaxShards == 3
MaxReplicas == 1
MaxFrontends == 1
\* versions 0 .. MaxVersion-1 can be published
MaxVersion == 2
\* failed discovery writes and cancels AssignRoles goes through, together
MaxFailures == 1
\* role versions 0 .. MaxRoleVersions-1 can be written under one node's role key
MaxRoleVersions == 3
\* the shards 0 .. MaxRegShards-1 the roles of that node can name
MaxRegShards == 1
\* failed Sets of the node's state in a row
MaxSetFailures == 2
\* the servers 1 .. MaxTwoServers register while two AssignRoles instances run
MaxTwoServers == 2
\* PutBlock calls running at the same time
MaxPuts == 2
\* lines of an input stream of PutBlock
MaxLines == 2
\* the bytes 1 .. MaxByte a line is made of
MaxByte == 2
\* bytes of an input stream of PutBlock before the scanner splits it
MaxInputBytes == 4
\* blockSize of the drive server, scaled down
blockSize == 3
\* failed file operations and stream reads the PutBlock calls run into, together
MaxPutFaults == 1
\* the diffs have the shards 0 .. MaxDiffShard
MaxDiffShard == 1
\* SizeBytes of a DiffInfo is in 1 .. MaxDiffSize
MaxDiffSize == 2
\* CreateDiff and DeleteDiff calls made, together
MaxDiffCalls == 2
\* the nodes 1 .. MaxNodes the gateway has connections to
MaxNodes == 2
\* the shards 0 .. MaxFillShards - 1 of the roles fillRoles installs
MaxFillShards == 2
\* the longest listing a node returns to FileList
MaxListing == 2
\* the replica connections Master goes through
MaxHolders == 2
\* the longest commit list of a repo
MaxCommits == 2
\* the addresses 1 .. MaxWaitNodes of the servers and of the frontends that
\* WaitForAvailability can be told to expect or can find registered
MaxWaitNodes == 2
\* the role versions 0 .. MaxWaitVersion - 1 WaitForAvailability can find
MaxWaitVersion == 3
\* goroutines that look up addresses at the same time
MaxLookups == 2
\* getAddresses calls of one goroutine
MaxLookupCalls == 2
\* the versions 0 .. MaxCacheVersion - 1 that are looked up
MaxCacheVersion == 2
\* goroutines calling filesystem.inode, the paths they ask for, calls each
MaxCallers == 2
MaxPaths == 2
MaxInodeCalls == 2

\* ------------------------------------------------------ program constants
InvalidVersion == -1
\* the zero value "" of ShardAddresses.Master
NoAddress == 0
\* math.MaxUint64, capped to the checker's integer range; it is only compared
MaxUint64 == 2147483647
\* '\n'
Newline == 10

VARIABLES
    numShards,       \* sharder.numShards
    numReplicas,     \* sharder.numReplicas
    numFrontends,    \* how many frontends the deployment runs
    seenServers,     \* the addresses of the server states the last callback was handed
    frontendStates,  \* discovery: .../frontend/state/{address}
    roleStore,       \* discovery: .../server/role/{address}/{version}
    addressesStore,  \* discovery: .../addresses/{version}
    arPc,            \* AssignRoles: "init", "watch", "gcwait", "returned"
    arErr,           \* AssignRoles: the returned error
    version,         \* AssignRoles: var version
    oldServers,      \* AssignRoles: oldServers
    oldRoles,        \* AssignRoles: oldRoles
    oldMasters,      \* AssignRoles: oldMasters
    oldReplicas,     \* AssignRoles: oldReplicas
    oldMinVersion,   \* AssignRoles: oldMinVersion
    arSnap,          \* AssignRoles: the servers of the callback that waits for the frontends,
                     \* with their shards (minVersion is oldMinVersion by then)
    failures,        \* how many discovery writes (Set, Delete) of AssignRoles failed so far
    cancels,         \* how many times the cancel channel of AssignRoles was closed so far
    lastPass,        \* what the last callback of this run did: "none", "empty", "same",
                     \* "failed", "published", "swapped" (published after a swapReplica), "error"
    \* one node running Register or RegisterFrontend
    kind,            \* "server" (Register) or "frontend" (RegisterFrontend)
    roleKey,         \* discovery: the ServerRoles under .../server/role/{address}
    rolesPublished,  \* how many role versions were written under the node's role key
    stateKey,        \* discovery: the node's state key, {} once its TTL has run out
    localShards,     \* the shards the node's Server holds (AddShard, RemoveShard)
    annPc,           \* the heartbeat loop: "set", "select", "done"
    annVersion,      \* serverState.Version / frontendState.Version
    annErr,          \* the error the heartbeat loop returned
    setFails,        \* how many Sets of the state failed in a row
    fillPc,          \* fillRoles / runFrontend: "watch", "install", "send", "done"
    fillOldRoles,    \* fillRoles: oldRoles
    fillRolesSnap,   \* fillRoles: roles of the running callback (empty between callbacks)
    fillVersions,    \* fillRoles: versions of the running callback (empty between callbacks)
    fillTodo,        \* fillRoles: the versions the install loop has not reached yet
    versionSending,  \* the version a sender offers on versionChan (InvalidVersion: none)
    fillErr,         \* the error fillRoles / runFrontend returned
    runVersion,      \* runFrontend: version
    extCancel,       \* the cancel channel of Register is closed
    internalCancel,  \* internalCancel is closed
    onceBy,          \* which goroutine ran the once.Do body: "", "announce", "fill", "cancel"
    retErr,          \* retErr of Register
    cancelPc,        \* the third goroutine: "select", "done"
    regReturned,     \* Register has returned
    shardCalls,      \* the AddShard / RemoveShard calls of the last round of fillRoles
    \* a second AssignRoles running against the same discovery store
    other,           \* the locals of the AssignRoles instance that is not taking steps
    \* the local block store
    tmpFiles,        \* the files under tmp/: name -> bytes
    blockFiles,      \* the files under block/: name -> bytes
    put,             \* the PutBlock calls: per call its position and locals
    putFaults,       \* how many file operations and stream reads have failed
    \* the local diff store
    diffFiles,       \* the files under diff/: path (its parts below diff/) -> bytes
    diffDirs,        \* the directories under diff/
    diffWrite,       \* the CreateDiff or DeleteDiff call that is running or ran last
    diffRead,        \* what the last InspectDiff or ListDiff call returned
    \* the API gateway and the nodes behind it
    nodes,           \* per node what its internal API has been told: repo, commit, files
    gw,              \* the gateway call that is running or has returned last
    fileList,        \* the gateway FileList call that is running or has returned last
    mst,             \* apiServer.Master: the reconciliation that is running or ran last
    wait,            \* WaitForAvailability: its position and what it has observed
    asg,             \* one assignment pass of AssignRoles, taken one loop iteration at a time
    lk,              \* the Addresses cache of a sharder, its lock and the lookups under way
    pub,             \* the writes of one AssignRoles callback, taken one Set at a time, and the server states
    ino              \* the inode table of a mount, its lock and the inode calls under way

assignVars == <<numShards, numReplicas, numFrontends, seenServers, frontendStates,
                roleStore, addressesStore, arPc, arErr, version, oldServers, oldRoles,
                oldMasters, oldReplicas, oldMinVersion, arSnap, failures, cancels,
                lastPass>>

regVars == <<kind, roleKey, rolesPublished, stateKey, localShards, annPc, annVersion,
             annErr, setFails, fillPc, fillOldRoles, fillRolesSnap, fillVersions,
             fillTodo, versionSending, fillErr, runVersion, extCancel,
             internalCancel, onceBy, retErr, cancelPc, regReturned, shardCalls>>

blockVars == <<tmpFiles, blockFiles, put, putFaults>>

diffVars == <<diffFiles, diffDirs, diffWrite, diffRead>>

gwVars == <<nodes, gw>>

moreVars == <<fileList, mst, wait, asg>>

lastVars == <<lk, pub, ino>>

pfsVars == <<other, blockVars, diffVars, gwVars, moreVars, lastVars>>

vars == <<assignVars, regVars, pfsVars>>

cfgVars == <<numShards, numReplicas, numFrontends>>

storeVars == <<roleStore, addressesStore>>
oldVars == <<version, oldServers, oldRoles, oldMasters, oldReplicas>>
arVars == <<arPc, arErr, oldVars, oldMinVersion, arSnap, lastPass>>
faultVars == <<failures, cancels>>

Servers == 1 .. MaxServers
Frontends == 1 .. numFrontends
Shards == 0 .. (numShards - 1)

SetMin(S) == CHOOSE x \in S : \A y \in S : x <= y
SetMax(S) == CHOOSE x \in S : \A y \in S : x >= y

EmptyMap == [x \in {} |-> 0]

\* the orders in which a range over a map with key set S can run
Perms(S) ==
    {p \in [1 .. Cardinality(S) -> S] :
        \A i, j \in 1 .. Cardinality(S) : p[i] = p[j] => i = j}

\* ------------------------------------------------------------ pure helpers

hasShard(serverRole, shard) ==
    shard \in serverRole.masters \/ shard \in serverRole.replicas

removeReplica(replicas, shard, address) ==
    LET Keep(x) == x # address
    IN  [replicas EXCEPT ![shard] = SelectSeq(@, Keep)]

\* sameServers with the lookup of the old addresses inverted
sameServersInverted(servers, newServerStates) ==
    /\ Cardinality(servers) = Cardinality(DOMAIN newServerStates)
    /\ \A address \in servers : address \notin DOMAIN newServerStates

\* sameServers that compares the lengths only
sameServersByCount(servers, newServerStates) ==
    Cardinality(servers) = Cardinality(DOMAIN newServerStates)

sameServers(servers, newServerStates) ==
    /\ Cardinality(servers) = Cardinality(DOMAIN newServerStates)
    /\ \A address \in servers : address \in DOMAIN newServerStates

\* assignMaster without the test of the remainder
assignMasterNoRemainderTest(st, address, shard, masterRolesPerServer) ==
    IF address \notin DOMAIN st.roles THEN [st EXCEPT !.ret = FALSE]
    ELSE LET serverRole == st.roles[address]
             n == Cardinality(serverRole.masters)
         IN  IF n > masterRolesPerServer THEN [st EXCEPT !.ret = FALSE]
             ELSE IF hasShard(serverRole, shard) THEN [st EXCEPT !.ret = FALSE]
             ELSE [st EXCEPT
                     !.mrem = IF n = masterRolesPerServer /\ @ > 0 THEN @ - 1 ELSE @,
                     !.roles[address].masters = @ \cup {shard},
                     !.masters = (shard :> address) @@ @,
                     !.ret = TRUE]

\* assignReplica that tests the replicas of the server instead of hasShard
assignReplicaNoHasShard(st, address, shard, replicaRolesPerServer) ==
    IF address \notin DOMAIN st.roles THEN [st EXCEPT !.ret = FALSE]
    ELSE LET serverRole == st.roles[address]
             n == Cardinality(serverRole.replicas)
         IN  IF n > replicaRolesPerServer THEN [st EXCEPT !.ret = FALSE]
             ELSE IF n = replicaRolesPerServer /\ st.rrem = 0 THEN [st EXCEPT !.ret = FALSE]
             ELSE IF shard \in serverRole.replicas THEN [st EXCEPT !.ret = FALSE]
             ELSE [st EXCEPT
                     !.rrem = IF n = replicaRolesPerServer /\ @ > 0 THEN @ - 1 ELSE @,
                     !.roles[address].replicas = @ \cup {shard},
                     !.replicas[shard] = Append(@, address),
                     !.ret = TRUE]

\* The state an assignment pass works on: newRoles, newMasters, newReplicas, the
\* two remainder counters, the boolean the last assign call returned, whether a
\* swapReplica returned true, and whether the pass ran into FailedToAssignRoles.
assignMaster(st, address, shard, masterRolesPerServer) ==
    IF address \notin DOMAIN st.roles THEN [st EXCEPT !.ret = FALSE]
    ELSE LET serverRole == st.roles[address]
             n == Cardinality(serverRole.masters)
         IN  IF n > masterRolesPerServer THEN [st EXCEPT !.ret = FALSE]
             ELSE IF n = masterRolesPerServer /\ st.mrem = 0 THEN [st EXCEPT !.ret = FALSE]
             ELSE IF hasShard(serverRole, shard) THEN [st EXCEPT !.ret = FALSE]
             ELSE [st EXCEPT
                     !.mrem = IF n = masterRolesPerServer /\ @ > 0 THEN @ - 1 ELSE @,
                     !.roles[address].masters = @ \cup {shard},
                     !.masters = (shard :> address) @@ @,
                     !.ret = TRUE]

assignReplica(st, address, shard, replicaRolesPerServer) ==
    IF address \notin DOMAIN st.roles THEN [st EXCEPT !.ret = FALSE]
    ELSE LET serverRole == st.roles[address]
             n == Cardinality(serverRole.replicas)
         IN  IF n > replicaRolesPerServer THEN [st EXCEPT !.ret = FALSE]
             ELSE IF n = replicaRolesPerServer /\ st.rrem = 0 THEN [st EXCEPT !.ret = FALSE]
             ELSE IF hasShard(serverRole, shard) THEN [st EXCEPT !.ret = FALSE]
             ELSE [st EXCEPT
                     !.rrem = IF n = replicaRolesPerServer /\ @ > 0 THEN @ - 1 ELSE @,
                     !.roles[address].replicas = @ \cup {shard},
                     !.replicas[shard] = Append(@, address),
                     !.ret = TRUE]

\* One trade of swapReplica: swapID gives up swapShard and takes shard, address
\* takes swapShard. Both assignReplica calls run with a local zero remainder.
swapTrade(st, address, swapID, swapShard, shard, replicaRolesPerServer) ==
    LET s1 == [st EXCEPT !.roles[swapID].replicas = @ \ {swapShard},
                         !.replicas = removeReplica(@, swapShard, swapID),
                         !.rrem = 0]
        s2 == assignReplica(s1, swapID, shard, MaxUint64)
        s3 == assignReplica([s2 EXCEPT !.rrem = 0], address, swapShard,
                            replicaRolesPerServer)
    IN  [s3 EXCEPT !.rrem = st.rrem, !.ret = TRUE, !.swapped = TRUE]

\* The results swapReplica can return true with (the range loops over the maps
\* run in any order, so the first pair found is any pair that passes the
\* checks); the empty set when it returns false.
swapReplica(st, address, shard, replicaRolesPerServer) ==
    IF address \notin DOMAIN st.roles THEN {}
    ELSE IF Cardinality(st.roles[address].replicas) >= replicaRolesPerServer THEN {}
    ELSE {swapTrade(st, address, p[1], p[2], shard, replicaRolesPerServer) :
            p \in {q \in (DOMAIN st.roles) \X Shards :
                     /\ q[1] # address
                     /\ q[2] \in st.roles[q[1]].replicas
                     /\ ~hasShard(st.roles[address], q[2])
                     /\ ~hasShard(st.roles[q[1]], shard)}}

\* shardLocations, filled in the order perm of the range over the server states
shardLocations(snap, perm) ==
    [shard \in Shards |->
        LET Holds(a) == shard \in snap[a].shards IN SelectSeq(perm, Holds)]

\* the candidates without the old master of the shard
CandidatesNoOldMaster(shard, loc) ==
    oldReplicas[shard] \o loc[shard]

\* the candidates of the first three tiers, in the order they are tried
Candidates(shard, loc) ==
    (IF shard \in DOMAIN oldMasters THEN <<oldMasters[shard]>> ELSE <<>>)
        \o oldReplicas[shard] \o loc[shard]

\* the Master loop iteration that takes any server assignMaster accepts
MasterStepAnyTier(st, shard, loc, per) ==
    IF st.failed THEN {st}
    ELSE LET A == {a \in DOMAIN st.roles : assignMaster(st, a, shard, per).ret}
         IN  IF A # {} THEN {assignMaster(st, a, shard, per) : a \in A}
             ELSE {[st EXCEPT !.failed = TRUE]}

\* One iteration of the Master loop: the states it can end in.
MasterStep(st, shard, loc, per) ==
    IF st.failed THEN {st}
    ELSE LET cands == Candidates(shard, loc)
             I == {i \in 1 .. Len(cands) : assignMaster(st, cands[i], shard, per).ret}
             A == {a \in DOMAIN st.roles : assignMaster(st, a, shard, per).ret}
         IN  IF I # {} THEN {assignMaster(st, cands[SetMin(I)], shard, per)}
             ELSE IF A # {} THEN {assignMaster(st, a, shard, per) : a \in A}
             ELSE {[st EXCEPT !.failed = TRUE]}

\* One iteration of the Replica loop: the states it can end in.
ReplicaStep(st, shard, loc, per) ==
    IF st.failed THEN {st}
    ELSE LET cands == Candidates(shard, loc)
             I == {i \in 1 .. Len(cands) : assignReplica(st, cands[i], shard, per).ret}
             A == {a \in DOMAIN st.roles : assignReplica(st, a, shard, per).ret}
             W == UNION {swapReplica(st, a, shard, per) : a \in DOMAIN st.roles}
         IN  IF I # {} THEN {assignReplica(st, cands[SetMin(I)], shard, per)}
             ELSE IF A # {} THEN {assignReplica(st, a, shard, per) : a \in A}
             ELSE IF W # {} THEN W
             ELSE {[st EXCEPT !.failed = TRUE]}

RECURSIVE MasterLoop(_, _, _, _)
MasterLoop(S, shard, loc, per) ==
    IF shard >= numShards THEN S
    ELSE MasterLoop(UNION {MasterStep(st, shard, loc, per) : st \in S},
                    shard + 1, loc, per)

\* k counts the iterations of the two nested loops: replica k \div numShards,
\* shard k % numShards
RECURSIVE ReplicaLoop(_, _, _, _)
ReplicaLoop(S, k, loc, per) ==
    IF k >= numShards * numReplicas THEN S
    ELSE ReplicaLoop(UNION {ReplicaStep(st, k % numShards, loc, per) : st \in S},
                     k + 1, loc, per)

NewRole(address) ==
    [address |-> address, version |-> version, masters |-> {}, replicas |-> {}]

\* The states the assignment loops of one callback can end in.
AssignOutcomes(snap, loc) ==
    LET K == Cardinality(DOMAIN snap)
        st0 == [roles |-> [a \in DOMAIN snap |-> NewRole(a)],
                masters |-> EmptyMap,
                replicas |-> [s \in Shards |-> <<>>],
                mrem |-> numShards % K,
                rrem |-> (numShards * numReplicas) % K,
                ret |-> FALSE,
                swapped |-> FALSE,
                failed |-> FALSE]
    IN  ReplicaLoop(MasterLoop({st0}, 0, loc, numShards \div K), 0, loc,
                    (numShards * numReplicas) \div K)

\* an Addresses record with the masters only
AddressesOfMasters(roles) ==
    [shard \in Shards |->
        [master |-> IF \E a \in DOMAIN roles : shard \in roles[a].masters
                    THEN CHOOSE a \in DOMAIN roles : shard \in roles[a].masters
                    ELSE NoAddress,
         replicas |-> {}]]

\* the Addresses record derived from newRoles
AddressesOf(roles) ==
    [shard \in Shards |->
        [master |-> IF \E a \in DOMAIN roles : shard \in roles[a].masters
                    THEN CHOOSE a \in DOMAIN roles : shard \in roles[a].masters
                    ELSE NoAddress,
         replicas |-> {a \in DOMAIN roles : shard \in roles[a].replicas}]]

\* ------------------------------------------------- discovery environment

\* The ServerState a registered node has written when its heartbeat carries
\* version v: InvalidVersion with no shard before its first role install
\* (announceServer), or a role version of its own that fillRoles installed, with
\* the shards of that role.
StateOf(a, v) ==
    IF v = InvalidVersion THEN [version |-> InvalidVersion, shards |-> {}]
    ELSE LET r == CHOOSE q \in roleStore : q.address = a /\ q.version = v
         IN  [version |-> v, shards |-> r.masters \cup r.replicas]

\* The contents of the server state directory a watch callback can be handed.
\* Addresses are interchangeable, so a server that never registered before has
\* the lowest unused address.
Snapshots ==
    LET known == oldServers \cup seenServers \cup {r.address : r \in roleStore}
        Has(a, v) == v = InvalidVersion \/
                     \E q \in roleStore : q.address = a /\ q.version = v
    IN  UNION {{[a \in S |-> StateOf(a, vs[a])] :
                    vs \in {ws \in [S -> InvalidVersion .. (MaxVersion - 1)] :
                                \A a \in S : Has(a, ws[a])}} :
               S \in {T \in SUBSET Servers :
                        \A a \in T : \A b \in Servers : b < a => b \in T \cup known}}

\* A frontend starts RegisterFrontend: the first Set of announceFrontend.
FrontendRegister(f) ==
    /\ f \notin DOMAIN frontendStates
    /\ frontendStates' = (f :> InvalidVersion) @@ frontendStates
    /\ UNCHANGED <<cfgVars, seenServers, storeVars, arVars, faultVars>>
    /\ UNCHANGED <<regVars, pfsVars>>

\* The TTL of a frontend state key runs out.
FrontendExpire(f) ==
    /\ f \in DOMAIN frontendStates
    /\ frontendStates' = [g \in DOMAIN frontendStates \ {f} |-> frontendStates[g]]
    /\ UNCHANGED <<cfgVars, seenServers, storeVars, arVars, faultVars>>
    /\ UNCHANGED <<regVars, pfsVars>>

\* The watch callback of runFrontend, handed the server states snap: the frontend
\* moves to their minimum version.
FrontendAdvance(f, snap) ==
    /\ f \in DOMAIN frontendStates
    /\ DOMAIN snap # {}
    /\ LET minVersion == SetMin({snap[a].version : a \in DOMAIN snap})
       IN  /\ minVersion > frontendStates[f]
           /\ frontendStates' = [frontendStates EXCEPT ![f] = minVersion]
    /\ UNCHANGED <<cfgVars, seenServers, storeVars, arVars, faultVars>>
    /\ UNCHANGED <<regVars, pfsVars>>

\* ------------------------------------------------------------ AssignRoles

\* the version rebuilt without the + 1
nextVersionNoIncrement(store) ==
    IF store = {} THEN 0 ELSE SetMax({r.version : r \in store})

\* var version after the loop over the ServerRoles of a previous run
nextVersion(store) ==
    IF store = {} THEN 0 ELSE SetMax({r.version : r \in store}) + 1

\* The prologue of AssignRoles: the state of a previous run is rebuilt from the
\* ServerRoles in discovery, then the watch of the server states starts. perm is
\* the order of the range over oldRoles.
Start ==
    /\ arPc \in {"init", "returned"}
    /\ LET addrs == {r.address : r \in roleStore}
           Top(a) == CHOOSE r \in roleStore :
                        r.address = a /\
                        \A q \in roleStore : q.address = a => q.version <= r.version
       IN  \E perm \in Perms(addrs) :
             LET Last(shard) ==
                    perm[SetMax({i \in DOMAIN perm : shard \in Top(perm[i]).masters})]
             IN
             /\ oldRoles' = [a \in addrs |-> Top(a)]
             /\ oldServers' = addrs
             /\ version' = nextVersion(roleStore)
             /\ oldMasters' =
                    [shard \in {s \in Shards : \E a \in addrs : s \in Top(a).masters}
                        |-> Last(shard)]
             /\ oldReplicas' =
                    [shard \in Shards |->
                        LET Has(a) == shard \in Top(a).replicas
                        IN  SelectSeq(perm, Has)]
    /\ oldMinVersion' = 0
    /\ arPc' = "watch"
    /\ arErr' = ""
    /\ lastPass' = "none"
    /\ UNCHANGED <<cfgVars, seenServers, frontendStates, storeVars, arSnap, faultVars>>
    /\ UNCHANGED <<regVars, pfsVars>>

\* the callback ending without writing, after the version was incremented
QuietIncremented(store, what) ==
    /\ roleStore' = store
    /\ lastPass' = what
    /\ arPc' = "watch"
    /\ version' = IF what = "failed" THEN version + 1 ELSE version
    /\ UNCHANGED <<addressesStore, oldServers, oldRoles, oldMasters, oldReplicas,
                   arErr, faultVars>>

\* The callback ends without writing: return nil.
Quiet(store, what) ==
    /\ roleStore' = store
    /\ lastPass' = what
    /\ arPc' = "watch"
    /\ UNCHANGED <<addressesStore, oldVars, arErr, faultVars>>

\* Every new ServerRole and the Addresses record are written, the version is
\* incremented, the new assignment becomes the old one.
Publish(store, snap, st) ==
    /\ roleStore' = {r \in store : ~(r.address \in DOMAIN snap /\ r.version = version)}
                        \cup {st.roles[a] : a \in DOMAIN snap}
    /\ addressesStore' = (version :> AddressesOf(st.roles)) @@ addressesStore
    /\ version' = version + 1
    /\ oldServers' = DOMAIN snap
    /\ oldRoles' = st.roles
    /\ oldMasters' = st.masters
    /\ oldReplicas' = st.replicas
    /\ lastPass' = IF st.swapped THEN "swapped" ELSE "published"
    /\ arPc' = "watch"
    /\ UNCHANGED <<arErr, faultVars>>

\* A Set fails: the roles of the servers in done are written, the callback
\* returns the error and AssignRoles returns it. done = all servers: the Set
\* of the Addresses record failed.
PublishError(store, snap, st) ==
    /\ failures + cancels < MaxFailures
    /\ failures' = failures + 1
    /\ \E done \in SUBSET (DOMAIN snap) :
          roleStore' = {r \in store : ~(r.address \in done /\ r.version = version)}
                            \cup {st.roles[a] : a \in done}
    /\ lastPass' = "error"
    /\ arPc' = "returned"
    /\ arErr' = "error"
    /\ UNCHANGED <<addressesStore, oldVars, cancels>>

\* The callback from the sameServers test on; store is the role directory as
\* the stale-role deletion left it, snap the server states the callback got.
AssignBody(store, snap) ==
    IF sameServers(oldServers, snap) THEN Quiet(store, "same")
    ELSE /\ version < MaxVersion
         /\ \E loc \in {shardLocations(snap, perm) : perm \in Perms(DOMAIN snap)} :
              \E st \in AssignOutcomes(snap, loc) :
                IF st.failed THEN Quiet(store, "failed")
                ELSE \/ Publish(store, snap, st)
                     \/ PublishError(store, snap, st)

\* minVersion of the callback: the lowest version among the server states
minVersionOf(snap) == SetMin({snap[a].version : a \in DOMAIN snap})

\* The watch callback of AssignRoles, handed the server states snap: up to its
\* end, or up to the watch of the frontend states when minVersion has increased.
Pass(snap) ==
    /\ arPc = "watch"
    /\ seenServers' = DOMAIN snap
    /\ IF DOMAIN snap = {}
       THEN /\ lastPass' = "empty"
            /\ UNCHANGED <<storeVars, arPc, arErr, oldVars, oldMinVersion, arSnap,
                           faultVars>>
       ELSE IF minVersionOf(snap) > oldMinVersion
            THEN /\ oldMinVersion' = minVersionOf(snap)
                 /\ arSnap' = [a \in DOMAIN snap |-> [shards |-> snap[a].shards]]
                 /\ arPc' = "gcwait"
                 /\ UNCHANGED <<storeVars, arErr, oldVars, lastPass, faultVars>>
            ELSE /\ AssignBody(roleStore, snap)
                 /\ UNCHANGED <<oldMinVersion, arSnap>>
    /\ UNCHANGED <<cfgVars, frontendStates>>
    /\ UNCHANGED <<regVars, pfsVars>>

\* the callback with its comparison inverted
frontendsCompleteInverted(states, minVersion) ==
    \A f \in DOMAIN states : ~(states[f] > minVersion)

\* The callback of the watch of the frontend states: errComplete (TRUE) when no
\* frontend state is below minVersion, nil (keep watching) otherwise.
frontendsComplete(states, minVersion) ==
    \A f \in DOMAIN states : ~(states[f] < minVersion)

\* The watch of the frontend states returns errComplete.
GcGate ==
    /\ arPc = "gcwait"
    /\ frontendsComplete(frontendStates, oldMinVersion)
    /\ arPc' = "gcdelete"
    /\ UNCHANGED <<cfgVars, seenServers, frontendStates, storeVars, arErr, oldVars,
                   oldMinVersion, arSnap, lastPass, faultVars>>
    /\ UNCHANGED <<regVars, pfsVars>>

\* the roles the deletion loop removes
staleRoles(store, minVersion) == {r \in store : r.version < minVersion}

\* The stale roles are deleted and the callback runs to its end.
GcResume ==
    /\ arPc = "gcdelete"
    /\ AssignBody(roleStore \ staleRoles(roleStore, oldMinVersion), arSnap)
    /\ arSnap' = EmptyMap
    /\ UNCHANGED <<cfgVars, seenServers, frontendStates, oldMinVersion>>
    /\ UNCHANGED <<regVars, pfsVars>>

\* A Delete of a stale role fails after the roles in done were deleted.
GcError ==
    /\ arPc = "gcdelete"
    /\ failures + cancels < MaxFailures
    /\ failures' = failures + 1
    /\ LET stale == staleRoles(roleStore, oldMinVersion)
       IN  /\ stale # {}
           /\ \E done \in SUBSET stale : done # stale /\ roleStore' = roleStore \ done
    /\ arPc' = "returned"
    /\ arErr' = "error"
    /\ lastPass' = "error"
    /\ arSnap' = EmptyMap
    /\ UNCHANGED <<cfgVars, seenServers, frontendStates, addressesStore,
                   oldVars, oldMinVersion, cancels>>
    /\ UNCHANGED <<regVars, pfsVars>>

\* The caller closes the cancel channel: the watch that is running returns
\* discovery.ErrCancelled and AssignRoles returns ErrCancelled.
Cancel ==
    /\ arPc \in {"watch", "gcwait"}
    /\ failures + cancels < MaxFailures
    /\ cancels' = cancels + 1
    /\ arPc' = "returned"
    /\ arErr' = "ErrCancelled"
    /\ arSnap' = EmptyMap
    /\ UNCHANGED <<cfgVars, seenServers, frontendStates, storeVars,
                   oldVars, oldMinVersion, lastPass, failures>>
    /\ UNCHANGED <<regVars, pfsVars>>

\* The locals of an AssignRoles instance before its first statement.
NotStarted ==
    [arPc |-> "init", arErr |-> "", version |-> 0, oldServers |-> {},
     oldRoles |-> EmptyMap, oldMasters |-> EmptyMap,
     oldReplicas |-> [shard \in Shards |-> <<>>], oldMinVersion |-> 0,
     arSnap |-> EmptyMap, lastPass |-> "none"]

\* Two AssignRoles instances run against the same discovery store, each with
\* its own locals: the instance taking steps gives way to the other one. The
\* store, the server states and the frontend states are shared.
Switch ==
    /\ other' = [arPc |-> arPc, arErr |-> arErr, version |-> version,
                 oldServers |-> oldServers, oldRoles |-> oldRoles,
                 oldMasters |-> oldMasters, oldReplicas |-> oldReplicas,
                 oldMinVersion |-> oldMinVersion, arSnap |-> arSnap,
                 lastPass |-> lastPass]
    /\ arPc' = other.arPc
    /\ arErr' = other.arErr
    /\ version' = other.version
    /\ oldServers' = other.oldServers
    /\ oldRoles' = other.oldRoles
    /\ oldMasters' = other.oldMasters
    /\ oldReplicas' = other.oldReplicas
    /\ oldMinVersion' = other.oldMinVersion
    /\ arSnap' = other.arSnap
    /\ lastPass' = other.lastPass
    /\ UNCHANGED <<cfgVars, seenServers, frontendStates, storeVars, faultVars>>
    /\ UNCHANGED <<regVars, blockVars, diffVars, gwVars, moreVars, lastVars>>

\* ------------------------------------------- Register / RegisterFrontend

\* the role versions that can appear under the node's role key
RoleVersions == 0 .. (MaxRoleVersions - 1)
\* the shards those roles name
RegShards == 0 .. (MaxRegShards - 1)

netVars == <<kind, roleKey, rolesPublished>>
annVars == <<annPc, annVersion, annErr, setFails>>
fillVars == <<fillPc, fillOldRoles, fillRolesSnap, fillVersions, fillTodo,
              versionSending, fillErr, runVersion>>
onceVars == <<internalCancel, onceBy, retErr>>
cancelVars == <<extCancel, cancelPc>>

\* the elements of the set S in increasing order
RECURSIVE SortedSeq(_)
SortedSeq(S) == IF S = {} THEN <<>> ELSE <<SetMin(S)>> \o SortedSeq(S \ {SetMin(S)})

\* shards(serverRole); a role of the node is kept as the set of its shards
shards(serverRole) == serverRole

\* containsShard that asks for the shard in every role
containsShardInAll(roles, shard) == \A v \in DOMAIN roles : shard \in roles[v]

containsShard(roles, shard) == \E v \in DOMAIN roles : shard \in roles[v]

\* once.Do(func() { retErr = err; close(internalCancel) }) run by goroutine who
OnceDo(who, err) ==
    IF onceBy = ""
    THEN /\ onceBy' = who
         /\ retErr' = err
         /\ internalCancel' = TRUE
    ELSE UNCHANGED onceVars

\* AssignRoles writes the node's ServerRole of the next version.
RolePublish(role) ==
    /\ kind = "server"
    /\ rolesPublished < MaxRoleVersions
    /\ roleKey' = (rolesPublished :> role) @@ roleKey
    /\ rolesPublished' = rolesPublished + 1
    /\ UNCHANGED <<kind, stateKey, localShards, annVars, fillVars, onceVars, cancelVars,
                   regReturned, shardCalls>>
    /\ UNCHANGED <<assignVars, pfsVars>>

\* AssignRoles deletes the node's stale roles: those below minVersion.
RoleDelete(minVersion) ==
    /\ kind = "server"
    /\ \E v \in DOMAIN roleKey : v < minVersion
    /\ roleKey' = [v \in {w \in DOMAIN roleKey : ~(w < minVersion)} |-> roleKey[v]]
    /\ UNCHANGED <<kind, rolesPublished, stateKey, localShards, annVars, fillVars,
                   onceVars, cancelVars, regReturned, shardCalls>>
    /\ UNCHANGED <<assignVars, pfsVars>>

\* The TTL (holdTTL) of the node's state key runs out.
StateExpire ==
    /\ stateKey # {}
    /\ stateKey' = {}
    /\ UNCHANGED <<netVars, localShards, annVars, fillVars, onceVars, cancelVars,
                   regReturned, shardCalls>>
    /\ UNCHANGED <<assignVars, pfsVars>>

\* the loop returning the error of the Set
afterSetReturnsError(setFailed) == IF setFailed THEN "done" ELSE "select"

\* What the heartbeat loop does once the Set of the state has returned: the
\* error is printed, and the loop goes on to its select.
afterSet(setFailed) == "select"

\* server.LocalShards() fails at the top of the loop of announceServer.
announceLocalShardsError ==
    /\ kind = "server"
    /\ annPc = "set"
    /\ annPc' = "done"
    /\ annErr' = "LocalShards"
    /\ OnceDo("announce", "LocalShards")
    /\ UNCHANGED <<netVars, stateKey, localShards, annVersion, setFails, fillVars,
                   cancelVars, regReturned, shardCalls>>
    /\ UNCHANGED <<assignVars, pfsVars>>

\* One round of the loop of announceServer / announceFrontend up to the select:
\* the state is written with the TTL, or the Set fails.
announceSet(setFailed) ==
    /\ annPc = "set"
    /\ IF setFailed
       THEN /\ setFails < MaxSetFailures
            /\ setFails' = setFails + 1
            /\ UNCHANGED stateKey
       ELSE /\ setFails' = 0
            /\ stateKey' = {[version |-> annVersion,
                             shards |-> IF kind = "server" THEN localShards ELSE {}]}
    /\ annPc' = afterSet(setFailed)
    /\ UNCHANGED <<netVars, localShards, annVersion, annErr, fillVars, onceVars,
                   cancelVars, regReturned, shardCalls>>
    /\ UNCHANGED <<assignVars, pfsVars>>

\* select: case <-time.After(holdTTL/2)
announceTick ==
    /\ annPc = "select"
    /\ annPc' = "set"
    /\ UNCHANGED <<netVars, stateKey, localShards, annVersion, annErr, setFails,
                   fillVars, onceVars, cancelVars, regReturned, shardCalls>>
    /\ UNCHANGED <<assignVars, pfsVars>>

\* select: case <-cancel; the loop returns nil
announceCancel ==
    /\ annPc = "select"
    /\ internalCancel
    /\ annPc' = "done"
    /\ UNCHANGED <<netVars, stateKey, localShards, annVersion, annErr, setFails,
                   fillVars, onceVars, cancelVars, regReturned, shardCalls>>
    /\ UNCHANGED <<assignVars, pfsVars>>

\* select: case version := <-versionChan, together with the send it meets:
\* versionChan <- version in fillRoles or in runFrontend.
versionRecv ==
    /\ annPc = "select"
    /\ fillPc = "send"
    /\ annVersion' = versionSending
    /\ annPc' = "set"
    /\ versionSending' = InvalidVersion
    /\ fillPc' = IF kind = "server" THEN "install" ELSE "watch"
    /\ UNCHANGED <<netVars, stateKey, localShards, annErr, setFails, fillOldRoles,
                   fillRolesSnap, fillVersions, fillTodo, fillErr, runVersion,
                   onceVars, cancelVars, regReturned, shardCalls>>
    /\ UNCHANGED <<assignVars, pfsVars>>

\* versions after sort.Sort and the cut to versions[0:2]
keptVersions(roles) ==
    LET sorted == SortedSeq(DOMAIN roles)
    IN  IF Len(sorted) > 2 THEN SubSeq(sorted, 1, 2) ELSE sorted

\* WatchAll of fillRoles hands the roles under the node's key to the callback:
\* they are decoded and the versions sorted.
fillCallback ==
    /\ kind = "server"
    /\ fillPc = "watch"
    /\ ~internalCancel
    /\ fillRolesSnap' = roleKey
    /\ fillVersions' = keptVersions(roleKey)
    /\ fillTodo' = keptVersions(roleKey)
    /\ fillPc' = "install"
    /\ UNCHANGED <<netVars, stateKey, localShards, annVars, fillOldRoles,
                   versionSending, fillErr, runVersion, onceVars, cancelVars,
                   regReturned, shardCalls>>
    /\ UNCHANGED <<assignVars, pfsVars>>

\* addShardErr that is never looked at
addShardErrIgnored(added, need) == FALSE

\* addShardErr != nil after wg.Wait(): one of the AddShard calls failed
addShardErr(added, need) == added # need

\* The AddShard calls of one version in the order they are made by the
\* goroutines: every one is called with version - 1, whatever the others returned.
addCalls(order, v, added) ==
    [i \in DOMAIN order |-> [shard |-> order[i], version |-> v - 1, ok |-> order[i] \in added]]

\* One round of the loop over versions: a version seen before is skipped; for a
\* new one AddShard is called for its shards that no old role contains (added:
\* the calls that succeed), then the version is offered on versionChan.
fillInstall ==
    /\ fillPc = "install"
    /\ fillTodo # <<>>
    /\ LET v == Head(fillTodo)
           serverRole == fillRolesSnap[v]
           need == {shard \in shards(serverRole) : ~containsShard(fillOldRoles, shard)}
       IN  IF v \in DOMAIN fillOldRoles
           THEN /\ fillTodo' = Tail(fillTodo)
                /\ UNCHANGED <<localShards, fillPc, fillOldRoles, versionSending,
                               fillErr, onceVars, shardCalls>>
           ELSE \E added \in SUBSET need : \E order \in Perms(need) :
                  /\ localShards' = localShards \cup added
                  /\ shardCalls' = [op |-> "AddShard", role |-> v,
                                    calls |-> addCalls(order, v, added)]
                  /\ IF ~addShardErr(added, need)
                     THEN /\ fillOldRoles' = (v :> serverRole) @@ fillOldRoles
                          /\ versionSending' = v
                          /\ fillTodo' = Tail(fillTodo)
                          /\ fillPc' = "send"
                          /\ UNCHANGED <<fillErr, onceVars>>
                     ELSE /\ fillErr' = "AddShard"
                          /\ fillPc' = "done"
                          /\ OnceDo("fill", "AddShard")
                          /\ UNCHANGED <<fillOldRoles, versionSending, fillTodo>>
    /\ UNCHANGED <<netVars, stateKey, annVars, fillRolesSnap, fillVersions, runVersion,
                   cancelVars, regReturned>>
    /\ UNCHANGED <<assignVars, pfsVars>>

\* the shards RemoveShard is called for when the old role of version v vanished
removeNeed(v) ==
    {shard \in shards(fillOldRoles[v]) : ~containsShard(fillRolesSnap, shard)}

\* The RemoveShard calls for the vanished versions, in the order gone of the
\* range over oldRoles: each with version - 1, every call of a version whatever
\* the others returned, and no call for the versions after one with a failure.
RECURSIVE removeCalls(_, _)
removeCalls(gone, removed) ==
    IF gone = <<>> THEN <<>>
    ELSE LET v == Head(gone)
             order == SortedSeq(removeNeed(v))
             calls == [i \in DOMAIN order |->
                          [shard |-> order[i], version |-> v - 1,
                           ok |-> order[i] \in removed]]
         IN  IF removeNeed(v) \subseteq removed
             THEN calls \o removeCalls(Tail(gone), removed)
             ELSE calls

\* The loop over oldRoles after the installs, and the end of the callback: the
\* shards of the vanished roles are removed and oldRoles becomes the roles of
\* versions; or a RemoveShard fails (removed: the shards whose calls succeed).
fillRemove ==
    /\ fillPc = "install"
    /\ fillTodo = <<>>
    /\ LET gone == {v \in DOMAIN fillOldRoles : v \notin DOMAIN fillRolesSnap}
           all == UNION {removeNeed(v) : v \in gone}
       IN  \E removed \in SUBSET all : \E order \in Perms(gone) :
             LET calls == removeCalls(order, removed)
             IN
             /\ localShards' = localShards \
                    {calls[i].shard : i \in {j \in DOMAIN calls : calls[j].ok}}
             /\ shardCalls' = [op |-> "RemoveShard", role |-> InvalidVersion,
                               calls |-> calls]
             /\ IF removed = all
                THEN /\ fillOldRoles' =
                            [v \in {fillVersions[i] : i \in DOMAIN fillVersions}
                                |-> fillRolesSnap[v]]
                     /\ fillRolesSnap' = EmptyMap
                     /\ fillVersions' = <<>>
                     /\ fillPc' = "watch"
                     /\ UNCHANGED <<fillErr, onceVars>>
                ELSE /\ fillErr' = "RemoveShard"
                     /\ fillPc' = "done"
                     /\ OnceDo("fill", "RemoveShard")
                     /\ UNCHANGED <<fillOldRoles, fillRolesSnap, fillVersions>>
    /\ UNCHANGED <<netVars, stateKey, annVars, fillTodo, versionSending, runVersion,
                   cancelVars, regReturned>>
    /\ UNCHANGED <<assignVars, pfsVars>>

\* The callback of runFrontend, handed server states whose lowest version is
\* minVersion: frontend.Version(minVersion) fails, or the version is taken and
\* offered on versionChan.
runFrontendCallback(minVersion, versionFailed) ==
    /\ kind = "frontend"
    /\ fillPc = "watch"
    /\ ~internalCancel
    /\ minVersion > runVersion
    /\ IF versionFailed
       THEN /\ fillErr' = "Version"
            /\ fillPc' = "done"
            /\ OnceDo("fill", "Version")
            /\ UNCHANGED <<runVersion, versionSending>>
       ELSE /\ runVersion' = minVersion
            /\ versionSending' = minVersion
            /\ fillPc' = "send"
            /\ UNCHANGED <<fillErr, onceVars>>
    /\ UNCHANGED <<netVars, stateKey, localShards, annVars, fillOldRoles, fillRolesSnap,
                   fillVersions, fillTodo, cancelVars, regReturned, shardCalls>>
    /\ UNCHANGED <<assignVars, pfsVars>>

\* WatchAll of fillRoles / runFrontend returns discovery.ErrCancelled once
\* internalCancel is closed; the once.Do of the goroutine finds the once taken.
fillCancel ==
    /\ fillPc = "watch"
    /\ internalCancel
    /\ fillPc' = "done"
    /\ fillErr' = "ErrCancelled"
    /\ OnceDo("fill", "ErrCancelled")
    /\ UNCHANGED <<netVars, stateKey, localShards, annVars, fillOldRoles, fillRolesSnap,
                   fillVersions, fillTodo, versionSending, runVersion, cancelVars,
                   regReturned, shardCalls>>
    /\ UNCHANGED <<assignVars, pfsVars>>

\* The caller closes the cancel channel of Register.
closeCancel ==
    /\ ~extCancel
    /\ ~regReturned
    /\ extCancel' = TRUE
    /\ UNCHANGED <<netVars, stateKey, localShards, annVars, fillVars, onceVars,
                   cancelPc, regReturned, shardCalls>>
    /\ UNCHANGED <<assignVars, pfsVars>>

\* The third goroutine: select case <-cancel
cancelObserve ==
    /\ cancelPc = "select"
    /\ extCancel
    /\ cancelPc' = "done"
    /\ OnceDo("cancel", "ErrCancelled")
    /\ UNCHANGED <<netVars, stateKey, localShards, annVars, fillVars, extCancel,
                   regReturned, shardCalls>>
    /\ UNCHANGED <<assignVars, pfsVars>>

\* The third goroutine: select case <-internalCancel
cancelQuit ==
    /\ cancelPc = "select"
    /\ internalCancel
    /\ cancelPc' = "done"
    /\ UNCHANGED <<netVars, stateKey, localShards, annVars, fillVars, onceVars,
                   extCancel, regReturned, shardCalls>>
    /\ UNCHANGED <<assignVars, pfsVars>>

\* wg.Wait() returns: the three goroutines are done, Register returns retErr.
registerReturn ==
    /\ ~regReturned
    /\ annPc = "done"
    /\ fillPc = "done"
    /\ cancelPc = "done"
    /\ regReturned' = TRUE
    /\ UNCHANGED <<netVars, stateKey, localShards, annVars, fillVars, onceVars,
                   cancelVars, shardCalls>>
    /\ UNCHANGED <<assignVars, pfsVars>>

\* ------------------------------------------------------ local block store

Puts == 1 .. MaxPuts

\* the lines bufio.Scanner hands out, without their newline; a line can be empty
Tokens == {<<>>} \cup {<<b>> : b \in 1 .. MaxByte}

\* the input streams: up to MaxLines lines
Streams == UNION {[1 .. k -> Tokens] : k \in 0 .. MaxLines}

\* the byte streams a client can send: up to MaxInputBytes bytes, newlines among them
RawInputs == UNION {[1 .. k -> (1 .. MaxByte) \cup {Newline}] : k \in 0 .. MaxInputBytes}

\* bufio.Scanner with the default split function, bufio.ScanLines: the lines
\* of the input without their newline; the last line need not end in one, and
\* an input that ends in a newline has no empty line after it.
RECURSIVE ScanLines(_)
ScanLines(bytes) ==
    IF bytes = <<>> THEN <<>>
    ELSE LET ends == {i \in DOMAIN bytes : bytes[i] = Newline}
         IN  IF ends = {} THEN <<bytes>>
             ELSE LET i == SetMin(ends)
                  IN  <<SubSeq(bytes, 1, i - 1)>> \o ScanLines(SubSeq(bytes, i + 1, Len(bytes)))

\* newHash ... getBlock(hash): the digest of the bytes written to the hash. The
\* digest is collision-free: it is represented by the bytes digested.
getBlock(digested) == [Hash |-> digested]

\* blockPath: the name of the file of a block under block/
blockPath(block) == block.Hash

\* tmp.Write that leaves out the last byte
tmpWriteShort(content, bytes) == content \o SubSeq(bytes, 1, Len(bytes) - 1)

\* tmp.Write(bytes)
tmpWrite(content, bytes) == content \o bytes

\* a function without the key k
Without(f, k) == [x \in DOMAIN f \ {k} |-> f[x]]

\* a file operation or a stream read may fail
PutFault(failed) ==
    IF failed THEN putFaults < MaxPutFaults /\ putFaults' = putFaults + 1
    ELSE UNCHANGED putFaults

\* putReturned that takes a block of blockSize bytes for the last one
putReturnedAtMost(c, res, err) ==
    IF err # ""
    THEN [c EXCEPT !.pc = "failed", !.result = res, !.retErr = err]
    ELSE LET refs == c.refs \o res
         IN  IF res[1].Upper - res[1].Lower <= blockSize
             THEN [c EXCEPT !.pc = "done", !.refs = refs]
             ELSE [c EXCEPT !.pc = "temp", !.refs = refs]

\* putOneBlock has returned (result, retErr) to the loop of PutBlock; a result
\* is <<>> for nil and <<blockRef>> otherwise. An error
\* ends PutBlock; a block shorter than blockSize is the last one and the
\* BlockRefs are sent; otherwise the next block is started.
putReturned(c, res, err) ==
    IF err # ""
    THEN [c EXCEPT !.pc = "failed", !.result = res, !.retErr = err]
    ELSE LET refs == c.refs \o res
         IN  IF res[1].Upper - res[1].Lower < blockSize
             THEN [c EXCEPT !.pc = "done", !.refs = refs]
             ELSE [c EXCEPT !.pc = "temp", !.refs = refs]

\* A PutBlock call arrives with its stream; broken: the stream ends in a read
\* error instead of EOF.
PutBlock(p, stream, broken) ==
    /\ put[p].pc = "idle"
    /\ PutFault(broken)
    /\ put' = [put EXCEPT ![p] = [@ EXCEPT !.pc = "temp", !.stream = stream,
                                            !.input = stream, !.broken = broken]]
    /\ UNCHANGED <<tmpFiles, blockFiles>>
    /\ UNCHANGED <<assignVars, regVars, other, diffVars, gwVars, moreVars, lastVars>>

\* putOneBlock up to its loop: newHash and ioutil.TempFile.
putTempFile(p, failed) ==
    /\ put[p].pc = "temp"
    /\ PutFault(failed)
    /\ IF failed
       THEN /\ put' = [put EXCEPT ![p] = putReturned(@, <<>>, "TempFile")]
            /\ UNCHANGED tmpFiles
       ELSE LET name == <<p, Len(put[p].refs)>>
            IN  /\ tmpFiles' = (name :> <<>>) @@ tmpFiles
                /\ put' = [put EXCEPT ![p] = [@ EXCEPT !.pc = "scan", !.tmp = name,
                                                        !.hash = <<>>, !.written = 0,
                                                        !.result = <<>>, !.retErr = ""]]
    /\ UNCHANGED blockFiles
    /\ UNCHANGED <<assignVars, regVars, other, diffVars, gwVars, moreVars, lastVars>>

\* One round of the loop of putOneBlock, or its end: scanner.Scan() hands out a
\* line, it goes to the hash and to the temporary file with its newline put
\* back, and the loop is left once more than blockSize bytes were written; or
\* the Write fails; or Scan returns false and scanner.Err() decides.
putScan(p, failed) ==
    /\ put[p].pc = "scan"
    /\ LET c == put[p]
       IN  IF c.input # <<>>
           THEN LET bytes == Append(Head(c.input), Newline)
                    written == c.written + Len(bytes)
                    digested == c.hash \o bytes
                IN  /\ PutFault(failed)
                    /\ IF failed
                       THEN /\ put' = [put EXCEPT ![p] =
                                          [c EXCEPT !.pc = "close", !.hash = digested,
                                                    !.input = Tail(c.input),
                                                    !.result = <<>>, !.retErr = "Write"]]
                            /\ UNCHANGED tmpFiles
                       ELSE /\ tmpFiles' = [tmpFiles EXCEPT ![c.tmp] = tmpWrite(@, bytes)]
                            /\ put' = [put EXCEPT ![p] =
                                          [c EXCEPT
                                             !.hash = digested,
                                             !.input = Tail(c.input),
                                             !.written = written,
                                             !.pc = IF written > blockSize
                                                    THEN "close" ELSE "scan",
                                             !.result =
                                                 IF written > blockSize
                                                 THEN <<[Block |-> getBlock(digested),
                                                        Lower |-> 0, Upper |-> written]>>
                                                 ELSE <<>>]]
           ELSE /\ ~failed
                /\ UNCHANGED <<tmpFiles, putFaults>>
                /\ put' = [put EXCEPT ![p] =
                              IF c.broken
                              THEN [c EXCEPT !.pc = "close", !.result = <<>>,
                                             !.retErr = "Read"]
                              ELSE [c EXCEPT !.pc = "close",
                                             !.result = <<[Block |-> getBlock(c.hash),
                                                          Lower |-> 0,
                                                          Upper |-> c.written]>>]]
    /\ UNCHANGED blockFiles
    /\ UNCHANGED <<assignVars, regVars, other, diffVars, gwVars, moreVars, lastVars>>

\* The deferred function up to os.Stat: tmp.Close(), and the return when
\* nothing was produced.
putClose(p, failed) ==
    /\ put[p].pc = "close"
    /\ PutFault(failed)
    /\ LET c == put[p]
       IN  put' = [put EXCEPT ![p] =
                     IF failed /\ c.retErr = "" THEN putReturned(c, c.result, "Close")
                     ELSE IF c.result = <<>> THEN putReturned(c, c.result, c.retErr)
                     ELSE [c EXCEPT !.pc = "stat"]]
    /\ UNCHANGED <<tmpFiles, blockFiles>>
    /\ UNCHANGED <<assignVars, regVars, other, diffVars, gwVars, moreVars, lastVars>>

\* os.Stat(s.blockPath(result.Block)): is it a new block?
putStat(p) ==
    /\ put[p].pc = "stat"
    /\ LET c == put[p]
       IN  put' = [put EXCEPT ![p] =
                     [c EXCEPT !.pc = IF blockPath(c.result[1].Block) \in DOMAIN blockFiles
                                      THEN "remove" ELSE "rename"]]
    /\ UNCHANGED <<tmpFiles, blockFiles, putFaults>>
    /\ UNCHANGED <<assignVars, regVars, other, diffVars, gwVars, moreVars, lastVars>>

\* The block is there already: os.Remove(tmp.Name()).
putRemove(p, failed) ==
    /\ put[p].pc = "remove"
    /\ PutFault(failed)
    /\ LET c == put[p]
       IN  IF failed
           THEN /\ put' = [put EXCEPT ![p] = putReturned(c, c.result, "Remove")]
                /\ UNCHANGED tmpFiles
           ELSE /\ tmpFiles' = Without(tmpFiles, c.tmp)
                /\ put' = [put EXCEPT ![p] = putReturned(c, c.result, "")]
    /\ UNCHANGED blockFiles
    /\ UNCHANGED <<assignVars, regVars, other, diffVars, gwVars, moreVars, lastVars>>

\* The block is new: os.Rename(tmp.Name(), s.blockPath(result.Block)), which
\* replaces a file that has appeared under that name since the Stat.
putRename(p, failed) ==
    /\ put[p].pc = "rename"
    /\ PutFault(failed)
    /\ LET c == put[p]
       IN  IF failed
           THEN /\ put' = [put EXCEPT ![p] = putReturned(c, c.result, "Rename")]
                /\ UNCHANGED <<tmpFiles, blockFiles>>
           ELSE /\ blockFiles' = (blockPath(c.result[1].Block) :> tmpFiles[c.tmp])
                                    @@ blockFiles
                /\ tmpFiles' = Without(tmpFiles, c.tmp)
                /\ put' = [put EXCEPT ![p] = putReturned(c, c.result, "")]
    /\ UNCHANGED <<assignVars, regVars, other, diffVars, gwVars, moreVars, lastVars>>

\* ------------------------------------------------------- local diff store

\* A repo name or commit id is kept as the sequence of its parts between
\* slashes: "a/b" is <<"a", "b">>.
DiffRepos == {<<"a">>, <<"a", "b">>}
DiffCommits == {<<"c">>, <<"b", "c">>, <<"0">>}
DiffShards == 0 .. MaxDiffShard

\* drive.Diff
DiffKeys == [Repo : DiffRepos, Commit : DiffCommits, Shard : DiffShards]

\* drive.DiffInfo; the pointer Diff is <<>> for nil and <<diff>> otherwise
DiffInfos == [Diff : {<<k>> : k \in DiffKeys}, SizeBytes : 1 .. MaxDiffSize]

\* proto.Marshal: the fields that are not zero, each with its tag
Marshal(info) ==
    (IF info.Diff # <<>> THEN <<[tag |-> "Diff", value |-> info.Diff]>> ELSE <<>>)
        \o (IF info.SizeBytes # 0
            THEN <<[tag |-> "SizeBytes", value |-> <<info.SizeBytes>>]>> ELSE <<>>)

\* proto.Unmarshal into a new DiffInfo: the fields found are set, the others
\* stay zero
Unmarshal(data) ==
    LET At(tag) == {i \in DOMAIN data : data[i].tag = tag}
    IN  [Diff |-> IF At("Diff") # {} THEN data[SetMax(At("Diff"))].value ELSE <<>>,
         SizeBytes |-> IF At("SizeBytes") # {}
                       THEN data[SetMax(At("SizeBytes"))].value[1] ELSE 0]

\* strconv.FormatUint(shard, 10)
FormatUint(shard) == ToString(shard)

\* strconv.ParseUint(s, 10, 64); -1 stands for the error
ParseUint(str) ==
    IF \E n \in DiffShards : ToString(n) = str
    THEN CHOOSE n \in DiffShards : ToString(n) = str
    ELSE -1

\* diffPath, below diffDir: filepath.Join puts the parts of the repo name, of
\* the commit id and the shard one after the other
diffPath(diff) == diff.Repo \o diff.Commit \o <<FormatUint(diff.Shard)>>

\* pathToDiff: what is left of the path after the prefix diffDir starts with a
\* slash, so strings.Split gives an empty first part and then the parts of the
\* path; <<>> stands for nil
pathToDiff(path) ==
    LET repoCommitShard == <<"">> \o path
        name(part) == IF part = "" THEN <<>> ELSE <<part>>
    IN  IF Len(repoCommitShard) < 3 THEN <<>>
        ELSE IF ParseUint(repoCommitShard[3]) = -1 THEN <<>>
        ELSE <<[Repo |-> name(repoCommitShard[1]), Commit |-> name(repoCommitShard[2]),
                Shard |-> ParseUint(repoCommitShard[3])]>>

\* readDiff: ioutil.ReadFile and proto.Unmarshal
readDiff(diff) ==
    IF diffPath(diff) \in DOMAIN diffFiles
    THEN [infos |-> <<Unmarshal(diffFiles[diffPath(diff)])>>, err |-> FALSE]
    ELSE [infos |-> <<>>, err |-> TRUE]

\* the directories above a path
DirsAbove(path) == {SubSeq(path, 1, n) : n \in 1 .. (Len(path) - 1)}

\* CreateDiff up to the write of ioutil.WriteFile: proto.Marshal, os.MkdirAll
\* and the open of the file, which truncates it.
CreateDiffOpen(request) ==
    /\ diffWrite.pc = "idle"
    /\ diffWrite.calls < MaxDiffCalls
    /\ LET path == diffPath(request.Diff[1])
           call == [op |-> "CreateDiff", req |-> request, data |-> Marshal(request),
                    calls |-> diffWrite.calls + 1]
       IN  IF DirsAbove(path) \cap DOMAIN diffFiles # {}
           THEN /\ diffWrite' = call @@ [pc |-> "idle", err |-> "MkdirAll"]
                /\ UNCHANGED <<diffFiles, diffDirs>>
           ELSE /\ diffDirs' = diffDirs \cup DirsAbove(path)
                /\ IF path \in diffDirs
                   THEN /\ diffWrite' = call @@ [pc |-> "idle", err |-> "WriteFile"]
                        /\ UNCHANGED diffFiles
                   ELSE /\ diffWrite' = call @@ [pc |-> "write", err |-> ""]
                        /\ diffFiles' = (path :> <<>>) @@ diffFiles
    /\ UNCHANGED diffRead
    /\ UNCHANGED <<assignVars, regVars, other, blockVars, gwVars, moreVars, lastVars>>

\* The write of ioutil.WriteFile and the return of CreateDiff: all the bytes
\* are written, or the write fails after the first n of them.
CreateDiffWrite(failed) ==
    /\ diffWrite.pc = "write"
    /\ LET path == diffPath(diffWrite.req.Diff[1])
       IN  IF failed
           THEN /\ \E n \in 0 .. (Len(diffWrite.data) - 1) :
                      diffFiles' = [diffFiles EXCEPT ![path] = SubSeq(diffWrite.data, 1, n)]
                /\ diffWrite' = [diffWrite EXCEPT !.pc = "idle", !.err = "WriteFile"]
           ELSE /\ diffFiles' = [diffFiles EXCEPT ![path] = diffWrite.data]
                /\ diffWrite' = [diffWrite EXCEPT !.pc = "idle"]
    /\ UNCHANGED <<diffDirs, diffRead>>
    /\ UNCHANGED <<assignVars, regVars, other, blockVars, gwVars, moreVars, lastVars>>

\* DeleteDiff: os.Remove of the file, or of the directory when it is empty.
DeleteDiff(diff) ==
    /\ diffWrite.pc = "idle"
    /\ diffWrite.calls < MaxDiffCalls
    /\ LET path == diffPath(diff)
           call == [op |-> "DeleteDiff", req |-> [Diff |-> <<diff>>], data |-> <<>>,
                    pc |-> "idle",
                    calls |-> diffWrite.calls + 1]
           below == {q \in DOMAIN diffFiles \cup diffDirs : path \in DirsAbove(q)}
       IN  IF path \in DOMAIN diffFiles
           THEN /\ diffFiles' = Without(diffFiles, path)
                /\ diffWrite' = call @@ [err |-> ""]
                /\ UNCHANGED diffDirs
           ELSE IF path \in diffDirs /\ below = {}
           THEN /\ diffDirs' = diffDirs \ {path}
                /\ diffWrite' = call @@ [err |-> ""]
                /\ UNCHANGED diffFiles
           ELSE /\ diffWrite' = call @@ [err |-> "Remove"]
                /\ UNCHANGED <<diffFiles, diffDirs>>
    /\ UNCHANGED diffRead
    /\ UNCHANGED <<assignVars, regVars, other, blockVars, gwVars, moreVars, lastVars>>

\* InspectDiff
InspectDiff(diff) ==
    /\ diffRead' = [op |-> "InspectDiff", arg |-> <<diff>>] @@ readDiff(diff)
    /\ UNCHANGED <<diffFiles, diffDirs, diffWrite>>
    /\ UNCHANGED <<assignVars, regVars, other, blockVars, gwVars, moreVars, lastVars>>

\* the order of the bytes of the names below diff/
PartOrder == <<"0", "1", "a", "b", "c">>

\* filepath.Walk goes through the tree in lexical order, a directory before what
\* is in it: path x comes before path y
RECURSIVE WalkBefore(_, _)
WalkBefore(x, y) ==
    IF x = <<>> THEN y # <<>>
    ELSE IF y = <<>> THEN FALSE
    ELSE IF Head(x) = Head(y) THEN WalkBefore(Tail(x), Tail(y))
    ELSE LET rank(part) == CHOOSE i \in DOMAIN PartOrder : PartOrder[i] = part
         IN  rank(Head(x)) < rank(Head(y))

\* the paths of S in the order of the walk
RECURSIVE Walk(_)
Walk(S) ==
    IF S = {} THEN <<>>
    ELSE LET first == CHOOSE x \in S : \A y \in S \ {x} : WalkBefore(x, y)
         IN  <<first>> \o Walk(S \ {first})

\* The function ListDiff walks with, on the paths still to visit: a path that
\* does not parse is passed over, a parsed diff of the shard asked for is read
\* and sent, an error ends the walk.
RECURSIVE walkFn(_, _, _)
walkFn(todo, shard, sent) ==
    IF todo = <<>> THEN [infos |-> sent, err |-> FALSE]
    ELSE LET diff == pathToDiff(Head(todo))
         IN  IF diff = <<>> THEN walkFn(Tail(todo), shard, sent)
             ELSE IF diff[1].Shard # shard THEN walkFn(Tail(todo), shard, sent)
             ELSE IF readDiff(diff[1]).err THEN [infos |-> sent, err |-> TRUE]
             ELSE walkFn(Tail(todo), shard, sent \o readDiff(diff[1]).infos)

\* ListDiff: filepath.Walk over diffDir, the directory itself first.
ListDiff(shard) ==
    /\ diffRead' = [op |-> "ListDiff", arg |-> <<shard>>]
                      @@ walkFn(Walk({<<>>} \cup diffDirs \cup DOMAIN diffFiles), shard, <<>>)
    /\ UNCHANGED <<diffFiles, diffDirs, diffWrite>>
    /\ UNCHANGED <<assignVars, regVars, other, blockVars, gwVars, moreVars, lastVars>>

\* ------------------------------------------------------------ API gateway

GwNodes == 1 .. MaxNodes

\* file paths, as the sequences of their characters
GwPaths == {<<"a">>, <<"/", "a">>}

\* the requests: one repo and its commit InitialCommitID; FilePut requests
\* carry a path, a file type and a value
GwRequests ==
    [op : {"RepoCreate", "RepoDelete", "CommitStart", "CommitFinish", "CommitDelete"},
     path : {<<>>}, fileType : {""}, value : {<<>>}]
        \cup [op : {"FilePut"}, path : GwPaths,
              fileType : {"FILE_TYPE_REGULAR", "FILE_TYPE_DIR"}, value : {<<>>, <<1>>}]

\* strings.HasSuffix in the place of strings.HasPrefix
HasSuffix(str, prefix) ==
    Len(str) >= Len(prefix) /\ SubSeq(str, Len(str) - Len(prefix) + 1, Len(str)) = prefix

\* strings.HasPrefix
HasPrefix(str, prefix) ==
    Len(str) >= Len(prefix) /\ SubSeq(str, 1, Len(prefix)) = prefix

\* the client the gateway makes for a method on a connection:
\* pfs.NewInternalApiClient, but pfs.NewApiClient in CommitDelete
ClientOf(method) == IF method = "CommitDelete" THEN "Api" ELSE "InternalApi"

\* router.GetAllClientConns: one connection per node
AllClientConns == [n \in GwNodes |-> n]

\* getClientConnForFile: sharder.GetShard(file) and router.GetMasterClientConn;
\* paths of different lengths go to different nodes
ClientConnForFile(path) == <<(Len(path) % MaxNodes) + 1>>

\* What a node does with a call: [ok, node]. A repo is made once, a commit is
\* started in a repo, finished when started, a file is put into a started commit.
NodeApply(node, method, path) ==
    LET fail == [ok |-> FALSE, node |-> node]
        Ok(nd) == [ok |-> TRUE, node |-> nd]
    IN  CASE method = "RepoCreate" ->
                IF node.repo THEN fail ELSE Ok([node EXCEPT !.repo = TRUE])
          [] method = "RepoDelete" ->
                IF node.repo
                THEN Ok([repo |-> FALSE, commit |-> "none", files |-> {}]) ELSE fail
          [] method = "CommitStart" ->
                IF node.repo /\ node.commit = "none"
                THEN Ok([node EXCEPT !.commit = "started"]) ELSE fail
          [] method = "CommitFinish" ->
                IF node.commit = "started"
                THEN Ok([node EXCEPT !.commit = "finished"]) ELSE fail
          [] method = "CommitDelete" ->
                IF node.commit # "none"
                THEN Ok([node EXCEPT !.commit = "none", !.files = {}]) ELSE fail
          [] method = "FilePut" ->
                IF node.commit = "started"
                THEN Ok([node EXCEPT !.files = @ \cup {path}]) ELSE fail

\* the gateway call has returned err
gwReturn(call, err) == [call EXCEPT !.pc = "returned", !.err = err]

\* the loop over the connections conns starts, calling method on each
gwFan(call, method, conns) ==
    [call EXCEPT !.pc = "fan", !.method = method, !.conns = conns, !.next = 1]

\* A request arrives at the gateway: the handler up to its first call to a
\* node. connsFailed: the router returns an error instead of connections.
gwStart(request, connsFailed) ==
    /\ gw.pc \in {"idle", "returned"}
    /\ LET call == [req |-> request, pc |-> "idle", method |-> "", conns |-> <<>>,
                    next |-> 1, calls |-> <<>>, err |-> ""]
       IN  gw' =
             IF request.op = "FilePut"
             THEN IF HasPrefix(request.path, <<"/">>)
                  THEN gwReturn(call, "leading slash in path")
                  ELSE IF request.fileType = "FILE_TYPE_DIR"
                  THEN IF Len(request.value) > 0
                       THEN gwReturn(call, "type dir and a value")
                       ELSE IF connsFailed THEN gwReturn(call, "router")
                       ELSE gwFan(call, "FilePut", AllClientConns)
                  ELSE IF connsFailed THEN gwReturn(call, "router")
                  ELSE gwFan(call, "FilePut", ClientConnForFile(request.path))
             ELSE IF connsFailed THEN gwReturn(call, "router")
             ELSE gwFan(call, request.op, AllClientConns)
    /\ UNCHANGED nodes
    /\ UNCHANGED <<assignVars, regVars, other, blockVars, diffVars, moreVars, lastVars>>

\* One round of the loop over the connections: the call to the next node, the
\* return at an error, and after the last node the return, or for RepoCreate
\* the CommitStart and CommitFinish of the initial commit. failed: the call
\* does not get through to the node.
gwRpc(failed, connsFailed) ==
    /\ gw.pc = "fan"
    /\ LET n == gw.conns[gw.next]
           r == IF failed THEN [ok |-> FALSE, node |-> nodes[n]]
                ELSE NodeApply(nodes[n], gw.method, gw.req.path)
           call == [gw EXCEPT !.calls = Append(@, [node |-> n,
                                                    client |-> ClientOf(gw.method),
                                                    method |-> gw.method,
                                                    ok |-> r.ok])]
           after == IF gw.req.op = "RepoCreate" /\ gw.method = "RepoCreate"
                    THEN "CommitStart"
                    ELSE IF gw.req.op = "RepoCreate" /\ gw.method = "CommitStart"
                    THEN "CommitFinish"
                    ELSE ""
       IN  /\ nodes' = [nodes EXCEPT ![n] = r.node]
           /\ gw' = IF ~r.ok THEN gwReturn(call, "rpc")
                    ELSE IF gw.next < Len(gw.conns) THEN [call EXCEPT !.next = @ + 1]
                    ELSE IF after = "" THEN gwReturn(call, "")
                    ELSE IF connsFailed THEN gwReturn(call, "router")
                    ELSE gwFan(call, after, AllClientConns)
    /\ UNCHANGED <<assignVars, regVars, other, blockVars, diffVars, moreVars, lastVars>>

\* ----------------------------------------------------- gateway FileList

\* the FileInfos a node can list: a path that is a directory or a regular file
ListedInfos == [path : {"a", "b"}, fileType : {"FILE_TYPE_DIR", "FILE_TYPE_REGULAR"}]

\* what a node answers to FileList
Listings == UNION {[1 .. n -> ListedInfos] : n \in 0 .. MaxListing}

\* the FileInfos of node n as the gateway holds them: objects of that response
FromNode(listing, n) ==
    [i \in DOMAIN listing |-> [path |-> listing[i].path,
                               fileType |-> listing[i].fileType, node |-> n]]

\* the inner loop that skips every entry whose path was seen, directory or not
RECURSIVE mergeSkipsAllSeen(_, _)
mergeSkipsAllSeen(acc, subFileInfos) ==
    IF subFileInfos = <<>> THEN acc
    ELSE LET fileInfo == Head(subFileInfos)
         IN  IF fileInfo.path \in acc.seenDirectories
             THEN mergeSkipsAllSeen(acc, Tail(subFileInfos))
             ELSE mergeSkipsAllSeen(
                      [fileInfos |-> Append(acc.fileInfos, fileInfo),
                       seenDirectories |-> acc.seenDirectories \cup {fileInfo.path}],
                      Tail(subFileInfos))

\* the inner loop of FileList over the FileInfos of one node: a directory whose
\* path was seen is skipped, every other entry is appended
RECURSIVE mergeFileInfos(_, _)
mergeFileInfos(acc, subFileInfos) ==
    IF subFileInfos = <<>> THEN acc
    ELSE LET fileInfo == Head(subFileInfos)
         IN  IF fileInfo.fileType = "FILE_TYPE_DIR"
             THEN IF fileInfo.path \in acc.seenDirectories
                  THEN mergeFileInfos(acc, Tail(subFileInfos))
                  ELSE mergeFileInfos(
                           [fileInfos |-> Append(acc.fileInfos, fileInfo),
                            seenDirectories |-> acc.seenDirectories \cup {fileInfo.path}],
                           Tail(subFileInfos))
             ELSE mergeFileInfos([acc EXCEPT !.fileInfos = Append(@, fileInfo)],
                                 Tail(subFileInfos))

\* FileList arrives: GetAllClientConns. listings: what each node would answer.
flStart(listings, connsFailed) ==
    /\ fileList.pc \in {"idle", "returned"}
    /\ fileList' =
          IF connsFailed
          THEN [pc |-> "returned", listings |-> listings, next |-> 1,
                fileInfos |-> <<>>, seenDirectories |-> {}, result |-> <<>>,
                err |-> "router"]
          ELSE [pc |-> "fan", listings |-> listings, next |-> 1,
                fileInfos |-> <<>>, seenDirectories |-> {}, result |-> <<>>,
                err |-> ""]
    /\ UNCHANGED <<mst, wait, asg>>
    /\ UNCHANGED <<assignVars, regVars, other, blockVars, diffVars, gwVars, lastVars>>

\* One round of the loop over the connections: the FileList call to the node and
\* the loop over what it returned; after the last node the FileInfos are returned.
flRpc(failed) ==
    /\ fileList.pc = "fan"
    /\ LET n == AllClientConns[fileList.next]
           acc == mergeFileInfos([fileInfos |-> fileList.fileInfos,
                                  seenDirectories |-> fileList.seenDirectories],
                                 FromNode(fileList.listings[n], n))
       IN  fileList' =
             IF failed THEN [fileList EXCEPT !.pc = "returned", !.err = "rpc"]
             ELSE IF fileList.next < Len(AllClientConns)
             THEN [fileList EXCEPT !.next = @ + 1, !.fileInfos = acc.fileInfos,
                                   !.seenDirectories = acc.seenDirectories]
             ELSE [fileList EXCEPT !.pc = "returned", !.fileInfos = acc.fileInfos,
                                   !.seenDirectories = acc.seenDirectories,
                                   !.result = <<acc.fileInfos>>]
    /\ UNCHANGED <<mst, wait, asg>>
    /\ UNCHANGED <<assignVars, regVars, other, blockVars, diffVars, gwVars, lastVars>>

\* ------------------------------------------------ apiServer.Master

Holders == 1 .. MaxHolders

\* what a CommitInfo says: the id of its commit and its size
CommitValues == [id : {"c0", "c1"}, SizeBytes : {0, 1}]

\* the commit lists of the one repo: no commit id twice
CommitLists ==
    {l \in UNION {[1 .. n -> CommitValues] : n \in 0 .. MaxCommits} :
        \A i, j \in DOMAIN l : l[i].id = l[j].id => i = j}

\* The CommitInfo structs a CommitList call returns: pfs.CommitInfo holds its
\* Commit as a pointer, and every call allocates the Commits it returns (who, i:
\* the address).
CommitInfosOf(list, who) ==
    [i \in DOMAIN list |-> [Commit |-> [addr |-> <<who, i>>, id |-> list[i].id],
                            SizeBytes |-> list[i].SizeBytes]]

\* a comparison that finds no two CommitInfos different
CommitInfoNeverDiffers(a, b) == FALSE

\* *commitInfo != *localCommitInfo[i]: the structs are compared field by field,
\* the pointer fields by the address they hold
CommitInfoDiffers(a, b) ==
    a.Commit.addr # b.Commit.addr \/ a.SizeBytes # b.SizeBytes

\* the loop over response.CommitInfo has reached its end: the next connection,
\* or return nil
mstAdvance(m) ==
    IF m.i <= Len(m.response) THEN m
    ELSE IF m.conn < MaxHolders THEN [m EXCEPT !.pc = "repo", !.conn = @ + 1]
    ELSE [m EXCEPT !.pc = "returned"]

\* Master(shard) starts: GetReplicaClientConns. holders: the commit list of the
\* repo at each replica; local: the commits the local driver holds of it.
masterStart(holders, local, connsFailed) ==
    /\ mst.pc = "idle"
    /\ mst' = [pc |-> IF connsFailed THEN "returned" ELSE "repo",
               holders |-> holders, local |-> local, conn |-> 1, i |-> 1,
               response |-> <<>>, localCommitInfo |-> <<>>, pulled |-> <<>>,
               differed |-> FALSE, err |-> IF connsFailed THEN "router" ELSE ""]
    /\ UNCHANGED <<fileList, wait, asg>>
    /\ UNCHANGED <<assignVars, regVars, other, blockVars, diffVars, gwVars, lastVars>>

\* For the connection reached: RepoList, driver.RepoCreate, CommitList at the
\* replica and driver.CommitList; any of them can fail.
masterRepo(failed) ==
    /\ mst.pc = "repo"
    /\ mst' =
          IF failed THEN [mst EXCEPT !.pc = "returned", !.err = "rpc"]
          ELSE mstAdvance([mst EXCEPT
                  !.pc = "commits",
                  !.i = 1,
                  !.response = CommitInfosOf(mst.holders[mst.conn], "response"),
                  !.localCommitInfo = CommitInfosOf(mst.local, "driver")])
    /\ UNCHANGED <<fileList, wait, asg>>
    /\ UNCHANGED <<assignVars, regVars, other, blockVars, diffVars, gwVars, lastVars>>

\* One round of the loop over response.CommitInfo: a commit the driver holds is
\* compared, a commit beyond them is pulled from the replica and pushed to the
\* driver (failed: PullDiff or DiffPush returns an error). differed records that
\* the two commits compared say different things.
masterCommit(failed) ==
    /\ mst.pc = "commits"
    /\ LET i == mst.i
           commitInfo == mst.response[i]
       IN  mst' =
             IF i <= Len(mst.localCommitInfo)
             THEN LET m == [mst EXCEPT !.differed =
                               @ \/ mst.holders[mst.conn][i] # mst.local[i]]
                  IN  IF CommitInfoDiffers(commitInfo, mst.localCommitInfo[i])
                      THEN [m EXCEPT !.pc = "returned", !.err = "divergent data"]
                      ELSE mstAdvance([m EXCEPT !.i = @ + 1])
             ELSE IF failed THEN [mst EXCEPT !.pc = "returned", !.err = "rpc"]
             ELSE mstAdvance([mst EXCEPT
                     !.i = @ + 1,
                     !.pulled = Append(@, [conn |-> mst.conn, i |-> i,
                                           id |-> commitInfo.Commit.id]),
                     !.local = Append(@, mst.holders[mst.conn][i])])
    /\ UNCHANGED <<fileList, wait, asg>>
    /\ UNCHANGED <<assignVars, regVars, other, blockVars, diffVars, gwVars, lastVars>>

\* ------------------------------------------------ WaitForAvailability

WaitNodes == 1 .. MaxWaitNodes
WaitVersions == InvalidVersion .. (MaxWaitVersion - 1)

\* the maps from some of the addresses to a version
WaitStates == UNION {[S -> WaitVersions] : S \in SUBSET WaitNodes}

\* What the watch of the server directory can hand to the callback: the
\* ServerStates by address, and the ServerRoles.
ServerDirs ==
    [states : WaitStates,
     roles : SUBSET [address : WaitNodes, version : 0 .. (MaxWaitVersion - 1)]]

\* serverRoles of the callback: per address the versions of its roles
serverRolesOf(dir) ==
    [a \in {r.address : r \in dir.roles} |->
        {r.version : r \in {q \in dir.roles : q.address = a}}]

\* the loop over serverRoles without the test of the roles' versions
rolesMatchAnyVersion(serverRoles, versions) ==
    \A a \in DOMAIN serverRoles : Cardinality(serverRoles[a]) = 1

\* the loop over serverRoles: one role per server, of a version in versions
rolesMatch(serverRoles, versions) ==
    \A a \in DOMAIN serverRoles :
        /\ Cardinality(serverRoles[a]) = 1
        /\ \A v \in serverRoles[a] : v \in versions

\* The callback of the first watch returns errComplete (the addresses are
\* distinct, so len(serverAddresses) is their number).
serversComplete(dir, serverAddresses) ==
    LET serverStates == dir.states
        serverRoles == serverRolesOf(dir)
        versions == {serverStates[a] : a \in DOMAIN serverStates}
    IN  /\ Cardinality(DOMAIN serverStates) = Cardinality(serverAddresses)
        /\ Cardinality(DOMAIN serverRoles) = Cardinality(serverAddresses)
        /\ \A address \in serverAddresses :
              address \in DOMAIN serverStates /\ address \in DOMAIN serverRoles
        /\ \A a \in DOMAIN serverStates : serverStates[a] # InvalidVersion
        /\ Cardinality(versions) = 1
        /\ rolesMatch(serverRoles, versions)

\* The callback of the second watch returns errComplete.
frontendsAvailable(frontendStates2, frontendAddresses, v) ==
    /\ \A a \in DOMAIN frontendStates2 : frontendStates2[a] = v
    /\ Cardinality(DOMAIN frontendStates2) = Cardinality(frontendAddresses)
    /\ \A address \in frontendAddresses : address \in DOMAIN frontendStates2

\* WaitForAvailability is called.
waitStart(frontendAddresses, serverAddresses) ==
    /\ wait.pc \in {"idle", "returned"}
    /\ wait' = [pc |-> "servers", frontendAddresses |-> frontendAddresses,
                serverAddresses |-> serverAddresses, version |-> InvalidVersion,
                servers |-> <<>>, frontends |-> <<>>, err |-> ""]
    /\ UNCHANGED <<fileList, mst, asg>>
    /\ UNCHANGED <<assignVars, regVars, other, blockVars, diffVars, gwVars, lastVars>>

\* The watch of the server directory calls back with dir, or fails (failed: the
\* watch or a decode returns an error, which WaitForAvailability returns).
waitServers(dir, failed) ==
    /\ wait.pc = "servers"
    /\ wait' =
          IF failed THEN [wait EXCEPT !.pc = "returned", !.err = "error"]
          ELSE IF serversComplete(dir, wait.serverAddresses)
          THEN [wait EXCEPT !.pc = "frontends",
                            !.version = CHOOSE v \in WaitVersions :
                                           \E a \in DOMAIN dir.states : dir.states[a] = v,
                            !.servers = <<dir>>]
          ELSE wait
    /\ UNCHANGED <<fileList, mst, asg>>
    /\ UNCHANGED <<assignVars, regVars, other, blockVars, diffVars, gwVars, lastVars>>

\* The watch of the frontend states calls back with states, or fails.
waitFrontends(states, failed) ==
    /\ wait.pc = "frontends"
    /\ wait' =
          IF failed THEN [wait EXCEPT !.pc = "returned", !.err = "error"]
          ELSE IF frontendsAvailable(states, wait.frontendAddresses, wait.version)
          THEN [wait EXCEPT !.pc = "returned", !.frontends = <<states>>]
          ELSE wait
    /\ UNCHANGED <<fileList, mst, asg>>
    /\ UNCHANGED <<assignVars, regVars, other, blockVars, diffVars, gwVars, lastVars>>

\* ------------------------------------- one assignment pass, step by step

\* The callback of AssignRoles up to its loops, for the server states of the
\* servers S, which differ from oldServers and have no version above
\* minVersion; loc is the shardLocations the range over them gives. The new
\* roles are empty, the counters are set.
asgBegin(S, loc) ==
    /\ asg.pc = "idle"
    /\ arPc = "watch"
    /\ S # {}
    /\ version < MaxVersion
    /\ LET snap == [a \in S |->
                     [shards |-> {shard \in Shards :
                                    \E i \in DOMAIN loc[shard] : loc[shard][i] = a}]]
           K == Cardinality(DOMAIN snap)
       IN  /\ ~sameServers(oldServers, snap)
           /\ asg' = [pc |-> "masters", k |-> 0,
                   loc |-> loc,
                   mper |-> numShards \div K,
                   rper |-> (numShards * numReplicas) \div K,
                   prev |-> <<>>,
                   st |-> [roles |-> [a \in DOMAIN snap |-> NewRole(a)],
                           masters |-> EmptyMap,
                           replicas |-> [shard \in Shards |-> <<>>],
                           mrem |-> numShards % K,
                           rrem |-> (numShards * numReplicas) % K,
                           ret |-> FALSE, swapped |-> FALSE, failed |-> FALSE]]
    /\ seenServers' = S
    /\ UNCHANGED <<cfgVars, frontendStates, storeVars, arVars, faultVars>>
    /\ UNCHANGED <<regVars, other, blockVars, diffVars, gwVars, lastVars>>
    /\ UNCHANGED <<fileList, mst, wait>>

\* One iteration of the Master loop, for shard asg.k.
asgMaster ==
    /\ asg.pc = "masters"
    /\ \E st \in MasterStep(asg.st, asg.k, asg.loc, asg.mper) :
          asg' = [asg EXCEPT
                    !.prev = <<[st |-> asg.st, shard |-> asg.k, loop |-> "Master"]>>,
                    !.st = st,
                    !.k = IF asg.k + 1 < numShards THEN asg.k + 1 ELSE 0,
                    !.pc = IF st.failed THEN "done"
                           ELSE IF asg.k + 1 < numShards THEN "masters"
                           ELSE IF numReplicas > 0 THEN "replicas" ELSE "done"]
    /\ UNCHANGED <<assignVars, regVars, other, blockVars, diffVars, gwVars, lastVars>>
    /\ UNCHANGED <<fileList, mst, wait>>

\* One iteration of the Replica loops: replica asg.k \div numShards, shard
\* asg.k % numShards.
asgReplica ==
    /\ asg.pc = "replicas"
    /\ \E st \in ReplicaStep(asg.st, asg.k % numShards, asg.loc, asg.rper) :
          asg' = [asg EXCEPT
                    !.prev = <<[st |-> asg.st, shard |-> asg.k % numShards,
                                loop |-> "Replica"]>>,
                    !.st = st,
                    !.k = asg.k + 1,
                    !.pc = IF st.failed \/ asg.k + 1 >= numShards * numReplicas
                           THEN "done" ELSE "replicas"]
    /\ UNCHANGED <<assignVars, regVars, other, blockVars, diffVars, gwVars, lastVars>>
    /\ UNCHANGED <<fileList, mst, wait>>

\* The end of the callback: after FailedToAssignRoles nothing is written;
\* otherwise the roles and the Addresses record are written (no Set fails).
asgEnd ==
    /\ asg.pc = "done"
    /\ asg' = [asg EXCEPT !.pc = "idle"]
    /\ IF asg.st.failed THEN Quiet(roleStore, "failed")
       ELSE Publish(roleStore, asg.st.roles, asg.st)
    /\ UNCHANGED <<cfgVars, seenServers, frontendStates, oldMinVersion, arSnap>>
    /\ UNCHANGED <<regVars, other, blockVars, diffVars, gwVars, lastVars>>
    /\ UNCHANGED <<fileList, mst, wait>>

\* ------------------------------------------------ sharder.getAddresses

Lookups == 1 .. MaxLookups
CacheVersions == InvalidVersion .. (MaxCacheVersion - 1)

\* newSharder: an empty cache, the lock free; no Addresses record in discovery
LookupInit ==
    lk = [addresses |-> EmptyMap, readers |-> {}, writer |-> 0, stored |-> {},
          pc |-> [p \in Lookups |-> "idle"],
          version |-> [p \in Lookups |-> InvalidVersion],
          calls |-> [p \in Lookups |-> 0],
          result |-> [p \in Lookups |-> <<>>],
          err |-> [p \in Lookups |-> ""]]

\* AssignRoles writes the Addresses record of a version to discovery.
lkSet(v) ==
    /\ v \notin lk.stored
    /\ lk' = [lk EXCEPT !.stored = @ \cup {v}]
    /\ UNCHANGED <<assignVars, regVars, other, blockVars, diffVars, gwVars, moreVars, pub, ino>>

\* Goroutine p calls getAddresses(v): InvalidVersion is refused at once.
lkCall(p, v) ==
    /\ lk.pc[p] \in {"idle", "returned"}
    /\ lk.calls[p] < MaxLookupCalls
    /\ lk' = [lk EXCEPT !.pc[p] = IF v = InvalidVersion THEN "returned" ELSE "rlock",
                        !.version[p] = v,
                        !.calls[p] = @ + 1,
                        !.result[p] = <<>>,
                        !.err[p] = IF v = InvalidVersion THEN "invalid version" ELSE ""]
    /\ UNCHANGED <<assignVars, regVars, other, blockVars, diffVars, gwVars, moreVars, pub, ino>>

\* addressesLock.RLock()
lkRLock(p) ==
    /\ lk.pc[p] = "rlock"
    /\ lk.writer = 0
    /\ lk' = [lk EXCEPT !.pc[p] = "check", !.readers = @ \cup {p}]
    /\ UNCHANGED <<assignVars, regVars, other, blockVars, diffVars, gwVars, moreVars, pub, ino>>

\* The look into a.addresses and RUnlock: the cached record is returned, or the
\* goroutine goes on to take the write lock.
lkCheck(p) ==
    /\ lk.pc[p] = "check"
    /\ lk' = IF lk.version[p] \in DOMAIN lk.addresses
             THEN [lk EXCEPT !.pc[p] = "returned", !.readers = @ \ {p},
                             !.result[p] = <<lk.addresses[lk.version[p]]>>]
             ELSE [lk EXCEPT !.pc[p] = "lock", !.readers = @ \ {p}]
    /\ UNCHANGED <<assignVars, regVars, other, blockVars, diffVars, gwVars, moreVars, pub, ino>>

\* addressesLock.Lock()
lkLock(p) ==
    /\ lk.pc[p] = "lock"
    /\ lk.writer = 0
    /\ lk.readers = {}
    /\ lk' = [lk EXCEPT !.pc[p] = "get", !.writer = p]
    /\ UNCHANGED <<assignVars, regVars, other, blockVars, diffVars, gwVars, moreVars, pub, ino>>

\* discoveryClient.Get and the decoding, under the write lock, and the deferred
\* Unlock: an error is returned (the key is missing, or failed: the read or the
\* decoding fails), or the record decoded by this call is cached and returned.
lkGet(p, failed) ==
    /\ lk.pc[p] = "get"
    /\ LET v == lk.version[p]
           addresses == [Version |-> v, object |-> <<p, lk.calls[p]>>]
       IN  lk' = IF failed \/ v \notin lk.stored
                 THEN [lk EXCEPT !.pc[p] = "returned", !.writer = 0, !.err[p] = "error"]
                 ELSE [lk EXCEPT !.pc[p] = "returned", !.writer = 0,
                                 !.addresses = (v :> addresses) @@ @,
                                 !.result[p] = <<addresses>>]
    /\ UNCHANGED <<assignVars, regVars, other, blockVars, diffVars, gwVars, moreVars, pub, ino>>

\* ------------------------------- AssignRoles: the writes of one callback

\* no server registered, no callback writing
PublishInit ==
    pub = [pc |-> "idle", states |-> EmptyMap, todo |-> {},
           st |-> [roles |-> EmptyMap, masters |-> EmptyMap, replicas |-> <<>>,
                   mrem |-> 0, rrem |-> 0, ret |-> FALSE, swapped |-> FALSE,
                   failed |-> FALSE]]

\* the server states in discovery: the version each server announces and the
\* shards of the role it has installed
pubSnapshot ==
    [a \in DOMAIN pub.states |->
        [version |-> pub.states[a],
         shards |-> UNION {r.masters \cup r.replicas :
                             r \in {q \in roleStore : q.address = a /\
                                                      q.version = pub.states[a]}}]]

\* announceServer of a new server: its first Set, with InvalidVersion
pubRegister(a) ==
    /\ a \notin DOMAIN pub.states
    /\ pub' = [pub EXCEPT !.states = (a :> InvalidVersion) @@ @]
    /\ UNCHANGED <<assignVars, regVars, other, blockVars, diffVars, gwVars, moreVars,
                   lk, ino>>

\* The callback of AssignRoles for the server states in discovery, up to the
\* first Set: the stale roles are deleted when minVersion has risen and no
\* frontend is behind, then the roles are assigned.
pubBegin ==
    /\ pub.pc = "idle"
    /\ arPc = "watch"
    /\ DOMAIN pub.states # {}
    /\ LET snap == pubSnapshot
           minVersion == minVersionOf(snap)
           gc == minVersion > oldMinVersion
           store == IF gc THEN roleStore \ staleRoles(roleStore, minVersion)
                    ELSE roleStore
       IN  /\ gc => frontendsComplete(frontendStates, minVersion)
           /\ oldMinVersion' = IF gc THEN minVersion ELSE oldMinVersion
           /\ seenServers' = DOMAIN snap
           /\ IF sameServers(oldServers, snap)
              THEN /\ Quiet(store, "same")
                   /\ UNCHANGED pub
              ELSE /\ version < MaxVersion
                   /\ \E loc \in {shardLocations(snap, perm) : perm \in Perms(DOMAIN snap)} :
                        \E st \in AssignOutcomes(snap, loc) :
                          IF st.failed
                          THEN /\ Quiet(store, "failed")
                               /\ UNCHANGED pub
                          ELSE /\ roleStore' = store
                               /\ pub' = [pub EXCEPT !.pc = "roles", !.st = st,
                                                     !.todo = DOMAIN snap]
                               /\ UNCHANGED <<addressesStore, oldVars, arPc, arErr,
                                              lastPass, faultVars>>
    /\ UNCHANGED <<cfgVars, frontendStates, arSnap>>
    /\ UNCHANGED <<regVars, other, blockVars, diffVars, gwVars, moreVars, lk, ino>>

\* discoveryClient.Set of the ServerRole of one server (the range over newRoles
\* takes them in any order)
pubSetRole(a) ==
    /\ pub.pc = "roles"
    /\ a \in pub.todo
    /\ roleStore' = roleStore \cup {pub.st.roles[a]}
    /\ pub' = [pub EXCEPT !.todo = @ \ {a},
                          !.pc = IF pub.todo = {a} THEN "addresses" ELSE "roles"]
    /\ UNCHANGED <<cfgVars, seenServers, frontendStates, addressesStore, arVars,
                   faultVars>>
    /\ UNCHANGED <<regVars, other, blockVars, diffVars, gwVars, moreVars, lk, ino>>

\* discoveryClient.Set of the Addresses record, then version++ and the new
\* assignment becomes the old one
pubSetAddresses ==
    /\ pub.pc = "addresses"
    /\ Publish(roleStore, pub.st.roles, pub.st)
    /\ pub' = [pub EXCEPT !.pc = "idle"]
    /\ UNCHANGED <<cfgVars, seenServers, frontendStates, oldMinVersion, arSnap>>
    /\ UNCHANGED <<regVars, other, blockVars, diffVars, gwVars, moreVars, lk, ino>>

\* fillRoles of server a is handed its ServerRole of version v, adds the
\* shards and sends v to announceServer, which writes the ServerState with it.
pubInstall(a, v) ==
    /\ a \in DOMAIN pub.states
    /\ v > pub.states[a]
    /\ \E r \in roleStore : r.address = a /\ r.version = v
    /\ pub' = [pub EXCEPT !.states[a] = v]
    /\ UNCHANGED <<assignVars, regVars, other, blockVars, diffVars, gwVars, moreVars,
                   lk, ino>>

\* --------------------------------- runFrontend and the server states

\* the highest version among the server states
frontendMaxVersion(states) == SetMax({states[a] : a \in DOMAIN states})

\* minVersion of the runFrontend callback: the lowest version among the
\* server states it was handed
frontendMinVersion(states) == SetMin({states[a] : a \in DOMAIN states})

\* The ServerState of server a is written with version v (a server registers,
\* or announces a version it installed or, after a restart, InvalidVersion).
pubAnnounce(a, v) ==
    /\ a \in DOMAIN pub.states => pub.states[a] # v
    /\ pub' = [pub EXCEPT !.states = (a :> v) @@ @]
    /\ UNCHANGED <<assignVars, regVars, other, blockVars, diffVars, gwVars, moreVars,
                   lk, ino>>

\* The TTL of the state key of server a runs out.
pubExpire(a) ==
    /\ a \in DOMAIN pub.states
    /\ pub' = [pub EXCEPT !.states = [b \in DOMAIN pub.states \ {a} |-> pub.states[b]]]
    /\ UNCHANGED <<assignVars, regVars, other, blockVars, diffVars, gwVars, moreVars,
                   lk, ino>>

\* The callback of runFrontend is handed the server states in discovery: it
\* returns nil when there is none, otherwise it goes on with their minVersion.
runFrontendPass(versionFailed) ==
    /\ DOMAIN pub.states # {}
    /\ runFrontendCallback(frontendMinVersion(pub.states), versionFailed)

\* ------------------------------------------------- filesystem.inode

Callers == 1 .. MaxCallers

\* the files of one commit the mount is asked about
InodeFiles ==
    {[Repo |-> <<"r">>, Commit |-> <<"c">>, Path |-> <<"p", path>>] :
        path \in 1 .. MaxPaths}

\* fmt.Sprintf("%s/%s/%s", file.Commit.Repo.Name, file.Commit.Id, file.Path)
key(file) == file.Repo \o <<"/">> \o file.Commit \o <<"/">> \o file.Path

\* newFilesystem: no inode assigned, the lock free, no call running
InodeInit ==
    ino = [inodes |-> EmptyMap, readers |-> {}, writer |-> 0,
           pc |-> [p \in Callers |-> "idle"],
           file |-> [p \in Callers |-> <<>>],
           calls |-> [p \in Callers |-> 0],
           result |-> [p \in Callers |-> <<>>]]

\* goroutine p calls f.inode(file)
inodeCall(p, file) ==
    /\ ino.pc[p] \in {"idle", "returned"}
    /\ ino.calls[p] < MaxInodeCalls
    /\ ino' = [ino EXCEPT !.pc[p] = "rlock", !.file[p] = file,
                          !.calls[p] = @ + 1, !.result[p] = <<>>]
    /\ UNCHANGED <<assignVars, regVars, other, blockVars, diffVars, gwVars, moreVars,
                   lk, pub>>

\* f.lock.RLock()
inodeRLock(p) ==
    /\ ino.pc[p] = "rlock"
    /\ ino.writer = 0
    /\ ino' = [ino EXCEPT !.pc[p] = "read", !.readers = @ \cup {p}]
    /\ UNCHANGED <<assignVars, regVars, other, blockVars, diffVars, gwVars, moreVars,
                   lk, pub>>

\* the lookup under the read lock, f.lock.RUnlock(), and the return of the
\* inode found
inodeRead(p) ==
    /\ ino.pc[p] = "read"
    /\ LET k == key(ino.file[p])
       IN  IF k \in DOMAIN ino.inodes
           THEN ino' = [ino EXCEPT !.pc[p] = "returned", !.readers = @ \ {p},
                                   !.result[p] = <<ino.inodes[k]>>]
           ELSE ino' = [ino EXCEPT !.pc[p] = "lock", !.readers = @ \ {p}]
    /\ UNCHANGED <<assignVars, regVars, other, blockVars, diffVars, gwVars, moreVars,
                   lk, pub>>

\* f.lock.Lock()
inodeLock(p) ==
    /\ ino.pc[p] = "lock"
    /\ ino.writer = 0
    /\ ino.readers = {}
    /\ ino' = [ino EXCEPT !.pc[p] = "locked", !.writer = p]
    /\ UNCHANGED <<assignVars, regVars, other, blockVars, diffVars, gwVars, moreVars,
                   lk, pub>>

\* Under the write lock: the inode another call has assigned meanwhile is
\* returned, with the lock still held; otherwise len(f.inodes) is assigned, the
\* lock released and the new inode returned.
inodeAssign(p) ==
    /\ ino.pc[p] = "locked"
    /\ LET k == key(ino.file[p])
       IN  IF k \in DOMAIN ino.inodes
           THEN ino' = [ino EXCEPT !.pc[p] = "returned",
                                   !.result[p] = <<ino.inodes[k]>>]
           ELSE LET newInode == Cardinality(DOMAIN ino.inodes)
                IN  ino' = [ino EXCEPT !.inodes = (k :> newInode) @@ @,
                                       !.writer = 0,
                                       !.pc[p] = "returned",
                                       !.result[p] = <<newInode>>]
    /\ UNCHANGED <<assignVars, regVars, other, blockVars, diffVars, gwVars, moreVars,
                   lk, pub>>

\* ------------------------------------------------------- specifications

\* AssignRoles before its first statement, nothing in discovery
AssignInit ==
    /\ seenServers = {}
    /\ frontendStates = EmptyMap
    /\ roleStore = {}
    /\ addressesStore = EmptyMap
    /\ arPc = "init"
    /\ arErr = ""
    /\ version = 0
    /\ oldServers = {}
    /\ oldRoles = EmptyMap
    /\ oldMasters = EmptyMap
    /\ oldReplicas = [shard \in 0 .. (numShards - 1) |-> <<>>]
    /\ oldMinVersion = 0
    /\ arSnap = EmptyMap
    /\ failures = 0
    /\ cancels = 0
    /\ lastPass = "none"

\* Register / RegisterFrontend at the start of its three goroutines
RegisterInit ==
    /\ roleKey = EmptyMap
    /\ rolesPublished = 0
    /\ stateKey = {}
    /\ localShards = {}
    /\ annPc = "set"
    /\ annVersion = InvalidVersion
    /\ annErr = ""
    /\ setFails = 0
    /\ fillPc = "watch"
    /\ fillOldRoles = EmptyMap
    /\ fillRolesSnap = EmptyMap
    /\ fillVersions = <<>>
    /\ fillTodo = <<>>
    /\ versionSending = InvalidVersion
    /\ fillErr = ""
    /\ runVersion = InvalidVersion
    /\ extCancel = FALSE
    /\ internalCancel = FALSE
    /\ onceBy = ""
    /\ retErr = ""
    /\ cancelPc = "select"
    /\ regReturned = FALSE
    /\ shardCalls = [op |-> "none", role |-> InvalidVersion, calls |-> <<>>]

\* newLocalAPIServer: the directories are there and empty, no call has arrived
BlockInit ==
    /\ tmpFiles = EmptyMap
    /\ blockFiles = EmptyMap
    /\ put = [p \in Puts |->
                [pc |-> "idle", stream |-> <<>>, input |-> <<>>, broken |-> FALSE,
                 tmp |-> <<>>, hash |-> <<>>, written |-> 0, result |-> <<>>,
                 retErr |-> "", refs |-> <<>>]]
    /\ putFaults = 0

\* newLocalAPIServer: diff/ is there and empty, no call has arrived
DiffInit ==
    /\ diffFiles = EmptyMap
    /\ diffDirs = {}
    /\ diffWrite = [op |-> "none", req |-> [Diff |-> <<>>], data |-> <<>>, pc |-> "idle",
                    err |-> "", calls |-> 0]
    /\ diffRead = [op |-> "none", arg |-> <<>>, infos |-> <<>>, err |-> FALSE]

\* newApiServer: no repo on any node, no call has arrived
GatewayInit ==
    /\ nodes = [n \in GwNodes |-> [repo |-> FALSE, commit |-> "none", files |-> {}]]
    /\ gw = [req |-> [op |-> "", path |-> <<>>, fileType |-> "", value |-> <<>>],
             pc |-> "idle", method |-> "", conns |-> <<>>, next |-> 1,
             calls |-> <<>>, err |-> ""]

\* no FileList, Master, WaitForAvailability or assignment pass has started
MoreInit ==
    /\ fileList = [pc |-> "idle", listings |-> [n \in GwNodes |-> <<>>], next |-> 1,
                   fileInfos |-> <<>>, seenDirectories |-> {}, result |-> <<>>,
                   err |-> ""]
    /\ mst = [pc |-> "idle", holders |-> [h \in Holders |-> <<>>], local |-> <<>>,
              conn |-> 1, i |-> 1, response |-> <<>>, localCommitInfo |-> <<>>,
              pulled |-> <<>>, differed |-> FALSE, err |-> ""]
    /\ wait = [pc |-> "idle", frontendAddresses |-> {}, serverAddresses |-> {},
               version |-> InvalidVersion,
               servers |-> <<>>, frontends |-> <<>>, err |-> ""]
    /\ asg = [pc |-> "idle", k |-> 0, loc |-> <<>>, mper |-> 0, rper |-> 0,
              prev |-> <<>>,
              st |-> [roles |-> EmptyMap, masters |-> EmptyMap, replicas |-> <<>>,
                      mrem |-> 0, rrem |-> 0, ret |-> FALSE, swapped |-> FALSE,
                      failed |-> FALSE]]
    /\ LookupInit
    /\ PublishInit
    /\ InodeInit

\* The deployments modelled: the assignment with two or more shards and no
\* frontend, the frontend gate of the stale-role deletion with one shard.
Init ==
    /\ \/ numShards \in 2 .. MaxShards /\ numReplicas \in 0 .. MaxReplicas
          /\ numFrontends = 0
       \/ numShards = 1 /\ numReplicas = 0 /\ numFrontends = MaxFrontends
    /\ AssignInit
    /\ kind = "server"
    /\ RegisterInit
    /\ other = NotStarted
    /\ BlockInit
    /\ DiffInit
    /\ GatewayInit
    /\ MoreInit

Next ==
    \/ \E f \in Frontends : FrontendRegister(f)
    \/ \E f \in Frontends : FrontendExpire(f)
    \/ \E f \in Frontends : \E snap \in Snapshots : FrontendAdvance(f, snap)
    \/ Start
    \/ \E snap \in Snapshots : Pass(snap)
    \/ GcGate
    \/ GcResume
    \/ GcError
    \/ Cancel

Spec == Init /\ [][Next]_vars

\* One node registering, as a server or as a frontend.
InitRegister ==
    /\ numShards = 1 /\ numReplicas = 0 /\ numFrontends = 0
    /\ AssignInit
    /\ kind \in {"server", "frontend"}
    /\ RegisterInit
    /\ other = NotStarted
    /\ BlockInit
    /\ DiffInit
    /\ GatewayInit
    /\ MoreInit

NextRegister ==
    \/ \E role \in SUBSET RegShards : RolePublish(role)
    \/ \E minVersion \in RoleVersions : RoleDelete(minVersion)
    \/ StateExpire
    \/ announceLocalShardsError
    \/ \E setFailed \in BOOLEAN : announceSet(setFailed)
    \/ announceTick
    \/ announceCancel
    \/ versionRecv
    \/ fillCallback
    \/ fillInstall
    \/ fillRemove
    \/ \E minVersion \in RoleVersions : \E versionFailed \in BOOLEAN :
          runFrontendCallback(minVersion, versionFailed)
    \/ fillCancel
    \/ closeCancel
    \/ cancelObserve
    \/ cancelQuit
    \/ registerReturn

SpecRegister == InitRegister /\ [][NextRegister]_vars

\* The goroutines of Register keep running: a goroutine that can take a step
\* takes one, and a select that is again and again at a ready case takes it
\* (the cancel case and the receive of announceServer, chosen at random among
\* the ready cases).
FairRegister ==
    /\ SpecRegister
    /\ SF_vars(announceCancel)
    /\ SF_vars(versionRecv)
    /\ WF_vars(\E setFailed \in BOOLEAN : announceSet(setFailed))
    /\ WF_vars(fillInstall)
    /\ WF_vars(fillRemove)
    /\ WF_vars(fillCancel)
    /\ WF_vars(cancelObserve)
    /\ WF_vars(cancelQuit)
    /\ WF_vars(registerReturn)

\* Two AssignRoles instances against one discovery store.
InitTwo ==
    /\ numShards = 2 /\ numReplicas = 0 /\ numFrontends = 0
    /\ AssignInit
    /\ kind = "server"
    /\ RegisterInit
    /\ other = NotStarted
    /\ BlockInit
    /\ DiffInit
    /\ GatewayInit
    /\ MoreInit

\* the server states of servers that have installed no role yet
FreshSnapshots ==
    {snap \in Snapshots :
        /\ DOMAIN snap \subseteq 1 .. MaxTwoServers
        /\ \A a \in DOMAIN snap : snap[a].version = InvalidVersion}

NextTwo ==
    \/ Start
    \/ \E snap \in FreshSnapshots : Pass(snap)
    \/ Switch

SpecTwo == InitTwo /\ [][NextTwo]_vars

\* PutBlock calls on one local block store.
InitBlock ==
    /\ numShards = 1 /\ numReplicas = 0 /\ numFrontends = 0
    /\ AssignInit
    /\ kind = "server"
    /\ RegisterInit
    /\ other = NotStarted
    /\ BlockInit
    /\ DiffInit
    /\ GatewayInit
    /\ MoreInit

NextBlock ==
    \/ \E p \in Puts : \E stream \in Streams : \E broken \in BOOLEAN :
          PutBlock(p, stream, broken)
    \/ \E p \in Puts : \E failed \in BOOLEAN : putTempFile(p, failed)
    \/ \E p \in Puts : \E failed \in BOOLEAN : putScan(p, failed)
    \/ \E p \in Puts : \E failed \in BOOLEAN : putClose(p, failed)
    \/ \E p \in Puts : putStat(p)
    \/ \E p \in Puts : \E failed \in BOOLEAN : putRemove(p, failed)
    \/ \E p \in Puts : \E failed \in BOOLEAN : putRename(p, failed)

SpecBlock == InitBlock /\ [][NextBlock]_vars

\* Calls on one local diff store: one writer, and readers beside it.
InitDiff ==
    /\ numShards = 1 /\ numReplicas = 0 /\ numFrontends = 0
    /\ AssignInit
    /\ kind = "server"
    /\ RegisterInit
    /\ other = NotStarted
    /\ BlockInit
    /\ DiffInit
    /\ GatewayInit
    /\ MoreInit

NextDiff ==
    \/ \E request \in DiffInfos : CreateDiffOpen(request)
    \/ \E failed \in BOOLEAN : CreateDiffWrite(failed)
    \/ \E diff \in DiffKeys : DeleteDiff(diff)
    \/ \E diff \in DiffKeys : InspectDiff(diff)
    \/ \E shard \in DiffShards : ListDiff(shard)

SpecDiff == InitDiff /\ [][NextDiff]_vars

\* Calls on one gateway, one after the other.
InitGateway ==
    /\ numShards = 1 /\ numReplicas = 0 /\ numFrontends = 0
    /\ AssignInit
    /\ kind = "server"
    /\ RegisterInit
    /\ other = NotStarted
    /\ BlockInit
    /\ DiffInit
    /\ GatewayInit
    /\ MoreInit

NextGateway ==
    \/ \E request \in GwRequests : \E connsFailed \in BOOLEAN :
          gwStart(request, connsFailed)
    \/ \E failed \in BOOLEAN : \E connsFailed \in BOOLEAN : gwRpc(failed, connsFailed)

SpecGateway == InitGateway /\ [][NextGateway]_vars

\* One server node whose roles have up to MaxFillShards shards: fillRoles and
\* the heartbeat that takes its versions, with no failing Set and no cancel.
InitFill ==
    /\ numShards = MaxFillShards /\ numReplicas = 0 /\ numFrontends = 0
    /\ AssignInit
    /\ kind = "server"
    /\ RegisterInit
    /\ other = NotStarted
    /\ BlockInit
    /\ DiffInit
    /\ GatewayInit
    /\ MoreInit

NextFill ==
    \/ \E role \in SUBSET Shards : RolePublish(role)
    \/ \E minVersion \in RoleVersions : RoleDelete(minVersion)
    \/ announceSet(FALSE)
    \/ announceTick
    \/ versionRecv
    \/ fillCallback
    \/ fillInstall
    \/ fillRemove

SpecFill == InitFill /\ [][NextFill]_vars

\* FileList calls on one gateway, one after the other.
InitFileList ==
    /\ numShards = 1 /\ numReplicas = 0 /\ numFrontends = 0
    /\ AssignInit
    /\ kind = "server"
    /\ RegisterInit
    /\ other = NotStarted
    /\ BlockInit
    /\ DiffInit
    /\ GatewayInit
    /\ MoreInit

NextFileList ==
    \/ \E listings \in [GwNodes -> Listings] : \E connsFailed \in BOOLEAN :
          flStart(listings, connsFailed)
    \/ \E failed \in BOOLEAN : flRpc(failed)

SpecFileList == InitFileList /\ [][NextFileList]_vars

\* One node enters the master role for a shard: a reconciliation, for any commit
\* lists at the replicas and in the local driver.
InitMaster ==
    /\ numShards = 1 /\ numReplicas = 0 /\ numFrontends = 0
    /\ AssignInit
    /\ kind = "server"
    /\ RegisterInit
    /\ other = NotStarted
    /\ BlockInit
    /\ DiffInit
    /\ GatewayInit
    /\ MoreInit

NextMaster ==
    \/ \E holders \in [Holders -> CommitLists] : \E local \in CommitLists :
          \E connsFailed \in BOOLEAN : masterStart(holders, local, connsFailed)
    \/ \E failed \in BOOLEAN : masterRepo(failed)
    \/ \E failed \in BOOLEAN : masterCommit(failed)

SpecMaster == InitMaster /\ [][NextMaster]_vars

\* Calls of WaitForAvailability, one after the other, against any discovery
\* contents.
InitWait ==
    /\ numShards = 1 /\ numReplicas = 0 /\ numFrontends = 0
    /\ AssignInit
    /\ kind = "server"
    /\ RegisterInit
    /\ other = NotStarted
    /\ BlockInit
    /\ DiffInit
    /\ GatewayInit
    /\ MoreInit

NextWait ==
    \/ \E frontendAddresses \in SUBSET WaitNodes : \E serverAddresses \in SUBSET WaitNodes :
          waitStart(frontendAddresses, serverAddresses)
    \/ \E dir \in ServerDirs : \E failed \in BOOLEAN : waitServers(dir, failed)
    \/ \E states \in WaitStates : \E failed \in BOOLEAN : waitFrontends(states, failed)

SpecWait == InitWait /\ [][NextWait]_vars

\* Assignment passes one after the other, each for a set of servers and what
\* they hold locally, the loops taken one iteration at a time.
InitAssign ==
    /\ numShards = 2 /\ numReplicas = 1 /\ numFrontends = 0
    /\ AssignInit
    /\ kind = "server"
    /\ RegisterInit
    /\ other = NotStarted
    /\ BlockInit
    /\ DiffInit
    /\ GatewayInit
    /\ MoreInit

NextAssign ==
    \/ Start
    \/ \E S \in SUBSET Servers :
          \E loc \in {shardLocations(snap, perm) :
                        snap \in [S -> [shards : SUBSET Shards]], perm \in Perms(S)} :
             asgBegin(S, loc)
    \/ asgMaster
    \/ asgReplica
    \/ asgEnd

SpecAssign == InitAssign /\ [][NextAssign]_vars

\* five servers, three shards with three replicas; server shard + 1 has the
\* data of shard
WideServers == 5
WideShards == 3
WideReplicas == 3

InitWide ==
    /\ numShards = WideShards /\ numReplicas = WideReplicas /\ numFrontends = 0
    /\ AssignInit
    /\ kind = "server"
    /\ RegisterInit
    /\ other = NotStarted
    /\ BlockInit
    /\ DiffInit
    /\ GatewayInit
    /\ MoreInit

NextWide ==
    \/ Start
    \/ asgBegin(1 .. WideServers, [shard \in Shards |-> <<shard + 1>>])
    \/ asgMaster
    \/ asgReplica
    \/ asgEnd

SpecWide == InitWide /\ [][NextWide]_vars

\* Goroutines of one process that look up addresses through the same sharder
\* while AssignRoles publishes Addresses records.
InitLookup ==
    /\ numShards = 1 /\ numReplicas = 0 /\ numFrontends = 0
    /\ AssignInit
    /\ kind = "server"
    /\ RegisterInit
    /\ other = NotStarted
    /\ BlockInit
    /\ DiffInit
    /\ GatewayInit
    /\ MoreInit

NextLookup ==
    \/ \E v \in 0 .. (MaxCacheVersion - 1) : lkSet(v)
    \/ \E p \in Lookups : \E v \in CacheVersions : lkCall(p, v)
    \/ \E p \in Lookups : lkRLock(p)
    \/ \E p \in Lookups : lkCheck(p)
    \/ \E p \in Lookups : lkLock(p)
    \/ \E p \in Lookups : \E failed \in BOOLEAN : lkGet(p, failed)

SpecLookup == InitLookup /\ [][NextLookup]_vars

\* AssignRoles writing an assignment Set by Set while the servers and a
\* frontend follow the versions they see.
InitPublish ==
    /\ numShards = 2 /\ numReplicas \in 0 .. MaxReplicas /\ numFrontends = MaxFrontends
    /\ AssignInit
    /\ kind = "server"
    /\ RegisterInit
    /\ other = NotStarted
    /\ BlockInit
    /\ DiffInit
    /\ GatewayInit
    /\ MoreInit

NextPublish ==
    \/ Start
    \/ \E a \in Servers : pubRegister(a)
    \/ pubBegin
    \/ \E a \in Servers : pubSetRole(a)
    \/ pubSetAddresses
    \/ \E a \in Servers : \E v \in 0 .. (MaxVersion - 1) : pubInstall(a, v)
    \/ \E f \in Frontends : FrontendRegister(f)
    \/ \E f \in Frontends : FrontendAdvance(f, pubSnapshot)

SpecPublish == InitPublish /\ [][NextPublish]_vars

\* RegisterFrontend of one frontend while server states come and go.
InitFrontend ==
    /\ numShards = 1 /\ numReplicas = 0 /\ numFrontends = 0
    /\ AssignInit
    /\ kind = "frontend"
    /\ RegisterInit
    /\ other = NotStarted
    /\ BlockInit
    /\ DiffInit
    /\ GatewayInit
    /\ MoreInit

NextFrontend ==
    \/ \E a \in 1 .. MaxTwoServers :
          \E v \in InvalidVersion .. (MaxRoleVersions - 1) : pubAnnounce(a, v)
    \/ \E a \in 1 .. MaxTwoServers : pubExpire(a)
    \/ StateExpire
    \/ \E setFailed \in BOOLEAN : announceSet(setFailed)
    \/ announceTick
    \/ announceCancel
    \/ versionRecv
    \/ \E versionFailed \in BOOLEAN : runFrontendPass(versionFailed)
    \/ fillCancel
    \/ closeCancel
    \/ cancelObserve
    \/ cancelQuit
    \/ registerReturn

SpecFrontend == InitFrontend /\ [][NextFrontend]_vars

\* Goroutines of the mount asking for inodes of the files of a commit.
InitInode ==
    /\ numShards = 1 /\ numReplicas = 0 /\ numFrontends = 0
    /\ AssignInit
    /\ kind = "server"
    /\ RegisterInit
    /\ other = NotStarted
    /\ BlockInit
    /\ DiffInit
    /\ GatewayInit
    /\ MoreInit

NextInode ==
    \/ \E p \in Callers : \E file \in InodeFiles : inodeCall(p, file)
    \/ \E p \in Callers : inodeRLock(p)
    \/ \E p \in Callers : inodeRead(p)
    \/ \E p \in Callers : inodeLock(p)
    \/ \E p \in Callers : inodeAssign(p)

SpecInode == InitInode /\ [][NextInode]_vars

\* ------------------------------------------------------------ properties

\* the ServerRoles in discovery with version v
RolesAt(v) == {r \in roleStore : r.version = v}

\* the servers an Addresses record names
AddressesNamed(v) ==
    ({addressesStore[v][shard].master : shard \in Shards} \ {NoAddress})
        \cup UNION {addressesStore[v][shard].replicas : shard \in Shards}

\* the last callback of this run wrote a complete new version
Published == lastPass \in {"published", "swapped"}

\* C1: in the ServerRoles and the Addresses record of every version, no server
\* has a shard in both its masters and its replicas, no two servers are master
\* of the same shard, and the master of a shard is not among its replicas.
RoleSafety ==
    /\ \A r \in roleStore : r.masters \cap r.replicas = {}
    /\ \A r, q \in roleStore :
          (r.version = q.version /\ r.address # q.address)
              => r.masters \cap q.masters = {}
    /\ \A v \in DOMAIN addressesStore : \A shard \in Shards :
          addressesStore[v][shard].master \notin addressesStore[v][shard].replicas

\* A second version was published, by a pass in which swapReplica traded a
\* replica, with every shard given a master and a replica.
RoleSafetyWitness ==
    /\ lastPass = "swapped"
    /\ version >= 2
    /\ \A shard \in Shards :
          /\ addressesStore[version - 1][shard].master # NoAddress
          /\ addressesStore[version - 1][shard].replicas # {}

\* C2: every ServerRole of a published version has floor(N/K) or ceil(N/K)
\* masters and floor(N*R/K) or ceil(N*R/K) replicas, K being the number of
\* servers of the pass.
Balanced ==
    Published =>
        LET K == Cardinality(oldServers)
            N == numShards
            NR == numShards * numReplicas
        IN  /\ Cardinality(RolesAt(version - 1)) = K
            /\ \A r \in RolesAt(version - 1) :
                  /\ Cardinality(r.masters) \in {N \div K, (N + K - 1) \div K}
                  /\ Cardinality(r.replicas) \in {NR \div K, (NR + K - 1) \div K}

\* A version published with replicas in which two servers have different
\* numbers of masters (K does not divide N).
BalancedWitness ==
    /\ Published
    /\ numReplicas = 1
    /\ \E r, q \in RolesAt(version - 1) :
          Cardinality(r.masters) # Cardinality(q.masters)

\* the versions of the ServerRoles and Addresses records in discovery
StoredVersions == {r.version : r \in roleStore} \cup DOMAIN addressesStore

\* the versions a step writes a ServerRole or an Addresses record of
WrittenVersions ==
    {r.version : r \in roleStore' \ roleStore}
        \cup {v \in DOMAIN addressesStore' :
                IF v \in DOMAIN addressesStore
                THEN addressesStore'[v] # addressesStore[v] ELSE TRUE}

\* C3: every version AssignRoles writes is greater than every version written
\* before: greater than all versions in discovery, whose highest is never
\* deleted; also after a stop and restart of AssignRoles.
VersionsMonotonic ==
    [][/\ \A w \in WrittenVersions : \A u \in StoredVersions : w > u
       /\ StoredVersions # {} =>
            /\ StoredVersions' # {}
            /\ SetMax(StoredVersions') >= SetMax(StoredVersions)]_vars

\* AssignRoles was stopped (a failure or a cancel), started again and has
\* published a version above the ones of its first run.
VersionsMonotonicWitness ==
    /\ failures + cancels >= 1
    /\ arPc = "watch"
    /\ Published
    /\ version >= 2

\* C4: a callback whose servers are the ones of the previous assignment writes
\* no ServerRole and no Addresses record and leaves the version as it is.
SameServersWritesNothing ==
    [][(arPc \in {"watch", "gcdelete"} /\ seenServers' = oldServers)
          => /\ roleStore' \subseteq roleStore
             /\ addressesStore' = addressesStore
             /\ version' = version]_vars

\* After a published version a callback came with the same servers.
SameServersWitness ==
    /\ lastPass = "same"
    /\ seenServers = oldServers
    /\ addressesStore # EmptyMap

\* the role of server a in version v
RoleOf(a, v) == CHOOSE r \in RolesAt(v) : r.address = a

\* w is the version published next after v
NextPublished(v, w) ==
    /\ v \in DOMAIN addressesStore
    /\ w \in DOMAIN addressesStore
    /\ v < w
    /\ \A u \in DOMAIN addressesStore : ~(v < u /\ u < w)

RoleKeys == {<<r.address, r.version>> : r \in roleStore}

\* C6: a ServerRole is deleted only by the deletion that follows the watch of
\* the frontend states, that watch ends only when no frontend state is below
\* minVersion, and only roles with a version below minVersion are deleted.
GcGated ==
    [][/\ (arPc # "gcdelete" /\ arPc' = "gcdelete")
            => \A f \in DOMAIN frontendStates : frontendStates[f] >= oldMinVersion
       /\ (RoleKeys \ RoleKeys' # {})
            => /\ arPc = "gcdelete"
               /\ \A k \in RoleKeys \ RoleKeys' : k[2] < oldMinVersion
               /\ \A k \in RoleKeys : k[2] >= oldMinVersion => k \in RoleKeys']_vars

\* With a frontend registered, the roles of version 0 were deleted.
GcGatedWitness ==
    /\ arPc = "watch"
    /\ frontendStates # EmptyMap
    /\ oldMinVersion >= 1
    /\ 0 \in DOMAIN addressesStore
    /\ roleStore # {}
    /\ \A r \in roleStore : r.version >= 1

\* the callback for the servers in seenServers has run to its end, and no
\* write to discovery has failed
CallbackDone ==
    /\ arPc = "watch"
    /\ lastPass \notin {"none", "empty"}
    /\ seenServers # {}
    /\ failures = 0

\* the last published version names none but the servers present
LatestNamesPresent ==
    addressesStore # EmptyMap =>
        LET v == SetMax(DOMAIN addressesStore)
        IN  AddressesNamed(v) \cup {r.address : r \in RolesAt(v)} \subseteq seenServers

InstallFailed ==
    /\ fillErr \in {"AddShard", "RemoveShard"}
    /\ ~extCancel
    /\ annErr = ""

\* C7: when an AddShard or RemoveShard call of a role install fails, the role
\* is not installed, its version is not advertised, and the node keeps
\* heartbeating its state: the heartbeat loop does not end.
InstallFailureKeepsHeartbeat ==
    /\ (InstallFailed /\ fillErr = "AddShard")
          => /\ Head(fillTodo) \notin DOMAIN fillOldRoles
             /\ annVersion # Head(fillTodo)
             /\ \A st \in stateKey : st.version # Head(fillTodo)
    /\ InstallFailed => annPc # "done"

\* a sender waits on versionChan and the heartbeat loop, its only receiver,
\* has returned
SenderBlocked == fillPc = "send" /\ annPc = "done"

\* C8: when the cancel channel is closed and no loop fails, Register and
\* RegisterFrontend return ErrCancelled: the cancel reaches the heartbeat loop
\* and the watch, none is left blocked, and the error returned is ErrCancelled.
CancelReturnsErrCancelled ==
    (extCancel /\ annErr = "" /\ fillErr \in {"", "ErrCancelled"})
        => /\ regReturned => retErr = "ErrCancelled"
           /\ ~SenderBlocked

\* C9: a step in which the Set of the state fails leaves the heartbeat loop at
\* its select, with the registration neither cancelled nor returned; the loop
\* ends only on the cancel or on an error of LocalShards.
SetFailureKeepsLoop ==
    [][/\ setFails' > setFails
            => /\ annPc' = "select"
               /\ internalCancel' = internalCancel
               /\ retErr' = retErr
               /\ regReturned' = regReturned
       /\ (annPc # "done" /\ annPc' = "done")
            => (internalCancel \/ annErr' = "LocalShards")]_vars

\* The Set has failed twice in a row and the loop waits for its next tick.
SetFailureWitness ==
    /\ setFails >= 2
    /\ annPc = "select"
    /\ ~internalCancel
    /\ ~regReturned

\* more servers than NumReplicas: the pass does not fail
NoFailureAboveReplicas ==
    lastPass = "failed" => Cardinality(seenServers) <= numReplicas

\* the Addresses record and the ServerRoles of version v agree, every shard
\* has exactly one master among them and no server has a shard twice
WellFormedAt(v) ==
    /\ AddressesNamed(v) \subseteq {r.address : r \in RolesAt(v)}
    /\ \A r \in RolesAt(v) : r.masters \cap r.replicas = {}
    /\ \A shard \in Shards :
          /\ Cardinality({r \in RolesAt(v) : shard \in r.masters}) = 1
          /\ \A r \in RolesAt(v) :
                /\ shard \in r.masters <=> addressesStore[v][shard].master = r.address
                /\ shard \in r.replicas <=> r.address \in addressesStore[v][shard].replicas

\* C11: with two AssignRoles instances on the same discovery store and no
\* failed write, every version that has its Addresses record and ServerRoles
\* in discovery is well-formed.
TwoInstancesWellFormed ==
    (failures = 0 /\ cancels = 0) =>
        \A v \in DOMAIN addressesStore : RolesAt(v) # {} => WellFormedAt(v)

\* the BlockRefs the PutBlock calls have got from putOneBlock so far
ReturnedRefs == UNION {{put[p].refs[i] : i \in DOMAIN put[p].refs} : p \in Puts}

\* C12: every block file, and every BlockRef returned, has at most blockSize
\* bytes.
BlocksWithinBlockSize ==
    /\ \A name \in DOMAIN blockFiles : Len(blockFiles[name]) <= blockSize
    /\ \A ref \in ReturnedRefs : ref.Upper - ref.Lower <= blockSize

\* the bytes of the lines of a stream, each with its newline
RECURSIVE StreamBytes(_)
StreamBytes(stream) ==
    IF stream = <<>> THEN <<>>
    ELSE Append(Head(stream), Newline) \o StreamBytes(Tail(stream))

\* C13: every file block/{h} holds the bytes whose digest is h; every BlockRef
\* returned has its block file, of the size the BlockRef gives, and a content
\* has no second file; PutBlock calls of the same content that are done have
\* returned the same BlockRefs.
BlockStoreConsistent ==
    /\ \A name \in DOMAIN blockFiles :
          blockPath(getBlock(blockFiles[name])) = name
    /\ \A ref \in ReturnedRefs :
          /\ blockPath(ref.Block) \in DOMAIN blockFiles
          /\ Len(blockFiles[blockPath(ref.Block)]) = ref.Upper
          /\ ref.Lower = 0
    /\ \A n1, n2 \in DOMAIN blockFiles :
          blockFiles[n1] = blockFiles[n2] => n1 = n2
    /\ \A p, q \in Puts :
          (/\ put[p].pc = "done" /\ put[q].pc = "done"
           /\ StreamBytes(put[p].stream) = StreamBytes(put[q].stream))
              => put[p].refs = put[q].refs

\* Two calls put the same content at the same time: one is done, the other
\* found no block at its Stat and is about to rename its temporary file over
\* the block file the first has made since.
BlockStoreWitness ==
    \E p, q \in Puts :
        /\ p # q
        /\ put[p].pc = "done"
        /\ put[p].stream # <<>>
        /\ put[q].stream = put[p].stream
        /\ put[q].pc = "rename"
        /\ blockPath(put[q].result[1].Block) \in DOMAIN blockFiles

\* C14: after a PutBlock call has failed on a write to the temporary file or
\* on a read of the stream, the temporary file of the block it was writing is
\* no longer under tmp/.
WriteErrorRemovesTmp ==
    \A p \in Puts :
        (put[p].pc = "failed" /\ put[p].retErr \in {"Write", "Read"})
            => put[p].tmp \notin DOMAIN tmpFiles

\* C15: what InspectDiff or ListDiff returns beside a CreateDiff is no record
\* (an error) or complete records, as some CreateDiff was called with: never an
\* empty or partly written one.
ReadsSeeCompleteRecords ==
    diffRead.err \/ \A i \in DOMAIN diffRead.infos : diffRead.infos[i] \in DiffInfos

\* C16: a CreateDiff or DeleteDiff call on key k leaves what InspectDiff returns
\* for every other key as it was; after a CreateDiff of k InspectDiff(k) returns
\* the DiffInfo it was called with, after a DeleteDiff of k an error.
DiffStoreKeyed ==
    [][\A k \in DiffKeys :
          (diffWrite' # diffWrite /\ diffWrite'.req.Diff = <<k>>)
             => /\ \A k2 \in DiffKeys \ {k} : readDiff(k2)' = readDiff(k2)
                /\ (diffWrite'.op = "CreateDiff" /\ diffWrite'.pc = "idle"
                      /\ diffWrite'.err = "")
                     => readDiff(k)' = [infos |-> <<diffWrite'.req>>, err |-> FALSE]
                /\ (diffWrite'.op = "DeleteDiff" /\ diffWrite'.err = "")
                     => readDiff(k)'.err]_vars

\* the DiffInfos stored for a shard
StoredFor(shard) ==
    {readDiff(k).infos[1] : k \in {d \in DiffKeys : d.Shard = shard /\ ~readDiff(d).err}}

\* C17: a ListDiff call made while no CreateDiff is running and none has
\* failed returns without error and has sent the DiffInfos stored for its
\* shard, each once, and nothing else.
ListDiffExact ==
    [][(/\ diffRead' # diffRead
        /\ diffRead'.op = "ListDiff"
        /\ diffWrite.pc = "idle"
        /\ diffWrite.err = "")
          => /\ ~diffRead'.err
             /\ {diffRead'.infos[i] : i \in DOMAIN diffRead'.infos}
                    = StoredFor(diffRead'.arg[1])
             /\ Len(diffRead'.infos) = Cardinality(StoredFor(diffRead'.arg[1]))]_vars

\* the path begins with "/"
LeadingSlash(path) == Len(path) > 0 /\ path[1] = "/"

ClusterScoped(req) ==
    \/ req.op \in {"RepoCreate", "RepoDelete", "CommitStart", "CommitFinish", "CommitDelete"}
    \/ req.op = "FilePut" /\ req.fileType = "FILE_TYPE_DIR"

\* the connections are called in their order, one round per method; only the
\* last call made can have failed, and then the gateway has returned its error;
\* a call that returned without error has called every connection
FanOutSequential ==
    ClusterScoped(gw.req) =>
        /\ \A i \in DOMAIN gw.calls :
              /\ gw.calls[i].node = AllClientConns[((i - 1) % MaxNodes) + 1]
              /\ ~gw.calls[i].ok => i = Len(gw.calls) /\ gw.pc = "returned" /\ gw.err # ""
        /\ (gw.pc = "returned" /\ gw.err = "" /\ gw.req.op # "RepoCreate")
              => Len(gw.calls) = MaxNodes /\ \A i \in DOMAIN gw.calls : gw.calls[i].ok
        /\ (gw.pc = "returned" /\ gw.err = "" /\ gw.req.op = "RepoCreate")
              => Len(gw.calls) = 3 * MaxNodes /\ \A i \in DOMAIN gw.calls : gw.calls[i].ok

\* every call of a cluster-scoped operation goes through the internal client
FanOutInternal ==
    ClusterScoped(gw.req) =>
        \A i \in DOMAIN gw.calls : gw.calls[i].client = "InternalApi"

\* C19: a cluster-scoped write calls the internal operation on every connection
\* in turn, succeeds only if every node did, and stops at the first failure.
ClusterWritesFanOut == FanOutSequential /\ FanOutInternal

\* C20: when RepoCreate has returned, either every node has the repo with its
\* initial commit finished, or no node has the repo.
RepoCreateAtomic ==
    (gw.req.op = "RepoCreate" /\ gw.pc = "returned") =>
        \/ \A n \in GwNodes : nodes[n].repo /\ nodes[n].commit = "finished"
        \/ \A n \in GwNodes : ~nodes[n].repo

\* the up to two highest elements of S
TopTwo(S) == {v \in S : Cardinality({w \in S : w > v}) < 2}

\* C24: the versions fillRoles keeps of the roles it was handed are at most two
\* and they are the highest ones present under the role key.
KeepsTwoHighest ==
    fillVersions # <<>> =>
        /\ Len(fillVersions) <= 2
        /\ {fillVersions[i] : i \in DOMAIN fillVersions} = TopTwo(DOMAIN fillRolesSnap)

\* C25: the heartbeat takes a version only when every shard of that role is held
\* and every AddShard call of its install returned without error; each version
\* taken or installed is higher than the ones before, and a ServerState that
\* is written carries the version the heartbeat has taken last.
VersionAfterInstall ==
    [][/\ annVersion' # annVersion =>
            /\ annVersion' > annVersion
            /\ annVersion' \in DOMAIN fillOldRoles
            /\ fillOldRoles[annVersion'] \subseteq localShards
            /\ shardCalls.op = "AddShard" /\ shardCalls.role = annVersion'
            /\ \A i \in DOMAIN shardCalls.calls : shardCalls.calls[i].ok
       /\ (versionSending' # versionSending /\ versionSending' # InvalidVersion) =>
            /\ versionSending' > annVersion
            /\ \A w \in DOMAIN fillOldRoles : versionSending' > w
            /\ fillRolesSnap[versionSending'] \subseteq localShards'
       /\ \A st \in stateKey' \ stateKey : st.version = annVersion
      ]_vars

\* C25: the heartbeat has written a ServerState with version 1, whose role has
\* both shards.
VersionAfterInstallWitness ==
    /\ \E st \in stateKey : st.version = 1 /\ st.shards = {0, 1}
    /\ annVersion = 1

\* C26: AddShard is called with version - 1 once for each shard of the new role
\* that no role held before contains; RemoveShard is called only for shards of a
\* vanished role that no role present contains; the shards of the roles held
\* are held by the server.
ShardDeltaExact ==
    [][/\ (shardCalls' # shardCalls /\ shardCalls'.op = "AddShard") =>
            LET v == shardCalls'.role
                calls == shardCalls'.calls
            IN  /\ {calls[i].shard : i \in DOMAIN calls}
                      = {shard \in fillRolesSnap[v] :
                            \A w \in DOMAIN fillOldRoles : shard \notin fillOldRoles[w]}
                /\ \A i, j \in DOMAIN calls : calls[i].shard = calls[j].shard => i = j
                /\ \A i \in DOMAIN calls : calls[i].version = v - 1
       /\ (shardCalls' # shardCalls /\ shardCalls'.op = "RemoveShard") =>
            LET calls == shardCalls'.calls
            IN  \A i \in DOMAIN calls :
                  /\ \A w \in DOMAIN fillRolesSnap : calls[i].shard \notin fillRolesSnap[w]
                  /\ \E w \in DOMAIN fillOldRoles :
                        /\ w \notin DOMAIN fillRolesSnap
                        /\ calls[i].shard \in fillOldRoles[w]
                        /\ calls[i].version = w - 1
       /\ \A shard \in localShards \ localShards' :
            \A w \in DOMAIN fillRolesSnap : shard \notin fillRolesSnap[w]
       /\ fillPc' # "done" =>
            \A w \in DOMAIN fillOldRoles' : fillOldRoles'[w] \subseteq localShards'
      ]_vars

\* C26: a callback has ended in which a shard was removed for a vanished role
\* while the server keeps the other shard for a role it holds.
ShardDeltaWitness ==
    /\ shardCalls.op = "RemoveShard"
    /\ \E i \in DOMAIN shardCalls.calls : shardCalls.calls[i].ok
    /\ fillPc = "watch"
    /\ localShards # {}
    /\ \E w \in DOMAIN fillOldRoles : fillOldRoles[w] # {}

\* C27: in the calls of one version no call is carried out after one that failed.
FirstErrorShortCircuits ==
    \A i \in DOMAIN shardCalls.calls :
        ~shardCalls.calls[i].ok => i = Len(shardCalls.calls)

\* the listings of the nodes one after the other, in the order of the connections
RECURSIVE AllListed(_, _)
AllListed(listings, n) ==
    IF n > MaxNodes THEN <<>>
    ELSE FromNode(listings[AllClientConns[n]], AllClientConns[n])
            \o AllListed(listings, n + 1)

\* C21: FileList returns the entries of all nodes in order, without the
\* directories whose path occurred before, and with every regular file; a
\* failing node makes the call return the error and no FileInfos.
FileListMerged ==
    fileList.pc = "returned" =>
        IF fileList.err # "" THEN fileList.result = <<>>
        ELSE LET all == AllListed(fileList.listings, 1)
                 Keep == {i \in DOMAIN all :
                            \/ all[i].fileType = "FILE_TYPE_REGULAR"
                            \/ \A j \in 1 .. (i - 1) :
                                  ~(all[j].fileType = "FILE_TYPE_DIR"
                                        /\ all[j].path = all[i].path)}
                 kept == SortedSeq(Keep)
             IN  fileList.result = <<[k \in DOMAIN kept |-> all[kept[k]]]>>

\* C21: a FileList has returned a listing in which a directory both nodes list
\* is there once and a regular file both nodes list is there twice.
FileListWitness ==
    /\ fileList.pc = "returned"
    /\ fileList.err = ""
    /\ fileList.listings[1] = <<[path |-> "a", fileType |-> "FILE_TYPE_DIR"],
                                [path |-> "b", fileType |-> "FILE_TYPE_REGULAR"]>>
    /\ fileList.listings[2] = fileList.listings[1]
    /\ Len(fileList.result[1]) = 3

\* C22: once a commit the node holds has been compared with a commit of the
\* replica that says something else, Master has returned the divergent-data
\* error and has pulled nothing of that replica's commit list.
DivergenceAborts ==
    mst.differed =>
        /\ mst.pc = "returned"
        /\ mst.err = "divergent data"
        /\ \A k \in DOMAIN mst.pulled : mst.pulled[k].conn # mst.conn

\* C22: the commit pulled from the first replica has been found different from
\* the second replica's commit at its position.
DivergenceWitness ==
    /\ mst.differed
    /\ mst.pc = "returned"
    /\ mst.conn = 2
    /\ mst.pulled # <<>>

\* C23: Master reports divergence only when a commit held differs from the
\* replica's commit at its position; when it returns without error, it has
\* pulled from each replica the commits beyond those the node held, in order.
MasterFieldByField ==
    /\ mst.err = "divergent data" => mst.differed
    /\ (mst.pc = "returned" /\ mst.err = "") =>
          \A k \in DOMAIN mst.pulled :
             mst.local[k + (Len(mst.local) - Len(mst.pulled))].id = mst.pulled[k].id

\* exactly the servers S are registered in dir, each with a state of version v
\* and with one role, of version v
ServersAvailableAt(dir, S, v) ==
    /\ v # InvalidVersion
    /\ DOMAIN dir.states = S
    /\ \A a \in S : dir.states[a] = v
    /\ {r.address : r \in dir.roles} = S
    /\ \A r \in dir.roles : r.version = v

\* C30: WaitForAvailability gets past the watch of the servers only with a
\* directory in which exactly the expected servers are at one valid version v
\* with one role each, of version v, and returns nil only with frontend states
\* that are exactly the expected frontends at v.
AvailabilityObserved ==
    /\ (wait.pc = "frontends" \/ (wait.pc = "returned" /\ wait.err = "")) =>
          /\ wait.servers # <<>>
          /\ ServersAvailableAt(wait.servers[1], wait.serverAddresses, wait.version)
    /\ (wait.pc = "returned" /\ wait.err = "") =>
          /\ wait.frontends # <<>>
          /\ DOMAIN wait.frontends[1] = wait.frontendAddresses
          /\ \A a \in wait.frontendAddresses : wait.frontends[1][a] = wait.version

\* C30: WaitForAvailability has returned nil for two servers and two frontends
\* at version 1.
AvailabilityWitness ==
    /\ wait.pc = "returned"
    /\ wait.err = ""
    /\ wait.version = 1
    /\ wait.serverAddresses = WaitNodes
    /\ wait.frontendAddresses = WaitNodes
    /\ wait.version = 1

\* the bytes digested into the blocks of the BlockRefs, one after the other
RECURSIVE RefBytes(_)
RefBytes(refs) ==
    IF refs = <<>> THEN <<>> ELSE Head(refs).Block.Hash \o RefBytes(Tail(refs))

\* C29: a PutBlock that is done has returned BlockRefs with range [0, size of
\* the chunk), whose chunks are the bytes of the stream in order; every one
\* before the last has at least blockSize bytes and the last has fewer. While
\* the call runs, every BlockRef it has so far has at least blockSize bytes.
TerminalBlockShort ==
    \A p \in Puts :
        LET refs == put[p].refs
        IN  /\ \A i \in DOMAIN refs :
                  /\ refs[i].Lower = 0
                  /\ refs[i].Upper = Len(refs[i].Block.Hash)
                  /\ (i < Len(refs) \/ put[p].pc # "done") => refs[i].Upper >= blockSize
            /\ put[p].pc = "done" =>
                  /\ refs # <<>>
                  /\ refs[Len(refs)].Upper < blockSize
                  /\ RefBytes(refs) = StreamBytes(put[p].stream)
                  /\ put[p].input = <<>>

\* C29: a stream of exactly blockSize bytes has been put: a block of blockSize
\* bytes and an empty last block.
TerminalBlockWitness ==
    \E p \in Puts :
        /\ put[p].pc = "done"
        /\ Len(put[p].refs) = 2
        /\ put[p].refs[1].Upper = blockSize
        /\ put[p].refs[2].Upper = 0

\* the candidates of the shard in the order of the claim: prior master, prior
\* replicas, servers that report the shard
TierOrder(shard, loc) ==
    (IF shard \in DOMAIN oldMasters THEN <<oldMasters[shard]>> ELSE <<>>)
        \o oldReplicas[shard] \o loc[shard]

\* the server can take the shard in the loop: it is a present server, does not
\* hold the shard, and has room, if need be by the remainder
Acceptable(st, a, shard, loop, per) ==
    /\ a \in DOMAIN st.roles
    /\ shard \notin st.roles[a].masters \cup st.roles[a].replicas
    /\ LET n == IF loop = "Master" THEN Cardinality(st.roles[a].masters)
                ELSE Cardinality(st.roles[a].replicas)
           rem == IF loop = "Master" THEN st.mrem ELSE st.rrem
       IN  n < per \/ (n = per /\ rem > 0)

\* the state after server a has taken the shard
Taken(st, a, shard, loop, per) ==
    IF loop = "Master"
    THEN [st EXCEPT !.roles[a].masters = @ \cup {shard},
                    !.masters = (shard :> a) @@ @,
                    !.mrem = IF Cardinality(st.roles[a].masters) = per THEN @ - 1 ELSE @,
                    !.ret = TRUE]
    ELSE [st EXCEPT !.roles[a].replicas = @ \cup {shard},
                    !.replicas[shard] = Append(@, a),
                    !.rrem = IF Cardinality(st.roles[a].replicas) = per THEN @ - 1 ELSE @,
                    !.ret = TRUE]

\* C28: in each iteration of the loops the shard goes to the first acceptable
\* server among prior master, prior replicas and servers reporting the shard,
\* else to an acceptable server; the remainder is decremented when that server
\* was at its share. The shards are taken in increasing order.
FirstAcceptableCandidate ==
    asg.prev # <<>> =>
        LET before == asg.prev[1].st
            shard == asg.prev[1].shard
            loop == asg.prev[1].loop
            per == IF loop = "Master" THEN asg.mper ELSE asg.rper
            tiers == TierOrder(shard, asg.loc)
            I == {i \in DOMAIN tiers : Acceptable(before, tiers[i], shard, loop, per)}
            A == {a \in DOMAIN before.roles : Acceptable(before, a, shard, loop, per)}
        IN  /\ I # {} =>
                  asg.st = Taken(before, tiers[SetMin(I)], shard, loop, per)
            /\ (I = {} /\ A # {}) =>
                  \E a \in A : asg.st = Taken(before, a, shard, loop, per)
            /\ (A = {} /\ loop = "Master") => asg.st.failed
            /\ loop = "Master" =>
                  shard = Cardinality(DOMAIN before.masters)
            /\ loop = "Replica" =>
                  shard = Cardinality({s \in Shards : before.replicas[s] # <<>>}) % numShards

\* C28: a shard whose prior master has left went to its prior replica although
\* another server reports the shard.
FirstAcceptableWitness ==
    /\ asg.prev # <<>>
    /\ asg.prev[1].loop = "Master"
    /\ asg.prev[1].shard \in DOMAIN oldMasters
    /\ oldMasters[asg.prev[1].shard] \notin DOMAIN asg.st.roles
    /\ oldReplicas[asg.prev[1].shard] # <<>>
    /\ asg.st.masters[asg.prev[1].shard] = oldReplicas[asg.prev[1].shard][1]
    /\ asg.loc[asg.prev[1].shard] # <<>>
    /\ asg.loc[asg.prev[1].shard][1] # oldReplicas[asg.prev[1].shard][1]

\* the lock is held by readers or by one writer; the cache is looked into
\* under the read lock and discovery is read under the write lock; a lookup
\* with InvalidVersion has failed without taking the lock
LookupLocked ==
    /\ lk.writer # 0 => lk.readers = {} /\ lk.pc[lk.writer] = "get"
    /\ \A p \in Lookups :
          /\ lk.pc[p] = "check" <=> p \in lk.readers
          /\ lk.pc[p] = "get" <=> lk.writer = p
          /\ lk.version[p] = InvalidVersion =>
                lk.pc[p] \in {"idle", "returned"} /\ lk.result[p] = <<>>
          /\ (lk.pc[p] = "returned" /\ lk.version[p] = InvalidVersion) =>
                lk.err[p] = "invalid version"

\* the cache is written only by the holder of the write lock, and not by a
\* lookup that returns an error
CacheWrittenLocked ==
    [][lk'.addresses # lk.addresses =>
          /\ lk.writer # 0
          /\ lk'.err[lk.writer] = ""
          /\ lk'.result[lk.writer] = <<lk'.addresses[lk.version[lk.writer]]>>
      ]_vars

\* C31: discovery is read only for a version that is not cached, and the record
\* cached for a version stays the one that later lookups return.
CachedOnce ==
    [][/\ \A p \in Lookups :
             (lk.pc[p] = "get" /\ lk'.pc[p] = "returned") =>
                lk.version[p] \notin DOMAIN lk.addresses
       /\ \A v \in DOMAIN lk.addresses :
             v \in DOMAIN lk'.addresses /\ lk'.addresses[v] = lk.addresses[v]
      ]_vars

\* C32: an Addresses record that is written names for every shard one master
\* and NumReplicas replicas other than the master, all of them servers the
\* callback was handed; the ServerRoles of its version are those of exactly
\* these servers and say the same; a record written is never changed.
AddressesComplete ==
    [][/\ \A v \in DOMAIN addressesStore :
             v \in DOMAIN addressesStore' /\ addressesStore'[v] = addressesStore[v]
       /\ \A v \in DOMAIN addressesStore' \ DOMAIN addressesStore :
             LET rec == addressesStore'[v]
                 written == {r \in roleStore' : r.version = v}
             IN  /\ DOMAIN rec = 0 .. (numShards - 1)
                 /\ {r.address : r \in written} = seenServers'
                 /\ \A shard \in DOMAIN rec :
                       /\ rec[shard].master \in seenServers'
                       /\ rec[shard].replicas \subseteq seenServers'
                       /\ rec[shard].master \notin rec[shard].replicas
                       /\ Cardinality(rec[shard].replicas) = numReplicas
                       /\ Cardinality({r \in written : shard \in r.masters}) = 1
                       /\ \A r \in written :
                             /\ shard \in r.masters <=> rec[shard].master = r.address
                             /\ shard \in r.replicas <=> r.address \in rec[shard].replicas
      ]_vars

\* C32: a second Addresses record was written, for three servers, with a
\* replica for every shard.
AddressesCompleteWitness ==
    /\ numReplicas = 1
    /\ Cardinality(DOMAIN addressesStore) = 2
    /\ Cardinality(AddressesNamed(SetMax(DOMAIN addressesStore))) = 3

\* C33: a callback that comes to the assignment with more servers than
\* NumReplicas does not end in FailedToAssignRoles: it writes the Addresses
\* record of the version and increments the version, or returns the error of
\* a write.
AlwaysAssigned ==
    [][/\ (lastPass' = "failed" /\ lastPass # "failed")
            => Cardinality(seenServers') <= numReplicas
       /\ (/\ lastPass' # lastPass
           /\ lastPass' \notin {"none", "empty", "same", "error"}
           /\ Cardinality(seenServers') > numReplicas)
            => (/\ version' = version + 1
                /\ version \in DOMAIN addressesStore'
                /\ \A shard \in Shards :
                      addressesStore'[version][shard].master \in seenServers')
      ]_vars

\* C34: a callback of this AssignRoles that ends in FailedToAssignRoles writes
\* no ServerRole and no Addresses record (the role directory loses at most the
\* stale roles deleted before the assignment), leaves version, oldServers,
\* oldRoles, oldMasters and oldReplicas as they were and returns nil: the
\* watch goes on.
FailedPassFrame ==
    [][(/\ lastPass' = "failed"
        /\ lastPass # "failed"
        /\ other' = other)
          => (/\ roleStore' \subseteq roleStore
              /\ arPc = "watch" => roleStore' = roleStore
              /\ addressesStore' = addressesStore
              /\ UNCHANGED oldVars
              /\ arErr' = arErr
              /\ arPc' = "watch")
      ]_vars

\* C34: after a published version a callback ended in FailedToAssignRoles
FailedPassFrameWitness ==
    /\ lastPass = "failed"
    /\ version = 1
    /\ oldServers # {}
    /\ seenServers # oldServers
    /\ 0 \in DOMAIN addressesStore
    /\ roleStore # {}

\* C35: AssignRoles started again after a run that no write failed in rebuilds
\* from the ServerRoles in discovery the oldServers and oldMasters the run
\* before ended with, and oldReplicas with the same servers for every shard.
RestartRebuilds ==
    [][(/\ arPc = "returned"
        /\ arPc' = "watch"
        /\ failures = 0
        /\ other' = other)
          => (/\ oldServers' = oldServers
              /\ oldMasters' = oldMasters
              /\ \A shard \in Shards :
                    {oldReplicas'[shard][i] : i \in DOMAIN oldReplicas'[shard]}
                        = {oldReplicas[shard][i] : i \in DOMAIN oldReplicas[shard]})
      ]_vars

\* C36: once internalCancel is closed (the cancel was seen or a loop returned
\* an error), Register or RegisterFrontend returns.
RegisterReturns == internalCancel ~> regReturned

\* C37: every version from 0 on that a ServerState or a FrontendState in
\* discovery carries has its Addresses record in discovery.
AdvertisedHasAddresses ==
    /\ \A a \in DOMAIN pub.states :
          pub.states[a] >= 0 => pub.states[a] \in DOMAIN addressesStore
    /\ \A f \in DOMAIN frontendStates :
          frontendStates[f] >= 0 => frontendStates[f] \in DOMAIN addressesStore

\* C38: the version in the FrontendState only goes up and is never set to
\* InvalidVersion; it is the version runFrontend took last. runFrontend takes a
\* version v only when it is above its own, frontend.Version(v) returned nil,
\* there is a server state and no server state it was handed is below v; with
\* no server state its version stays.
FrontendVersionAdvance ==
    [][/\ annVersion' # annVersion
            => (/\ annVersion' > annVersion
                /\ annVersion' # InvalidVersion
                /\ annVersion' = runVersion)
       /\ runVersion' # runVersion
            => (/\ runVersion' > runVersion
                /\ fillErr' = ""
                /\ DOMAIN pub.states # {}
                /\ \A a \in DOMAIN pub.states : pub.states[a] >= runVersion')
       /\ \A st \in stateKey' \ stateKey : st.version = annVersion
       /\ DOMAIN pub.states = {} => runVersion' = runVersion
      ]_vars

\* C38: the frontend has written its state with version 1 while one server is
\* at version 1 and the other at version 2
FrontendVersionAdvanceWitness ==
    /\ kind = "frontend"
    /\ \E st \in stateKey : st.version = 1
    /\ DOMAIN pub.states = 1 .. MaxTwoServers
    /\ pub.states[1] = 1
    /\ pub.states[2] = 2
    /\ runVersion = 1

\* the bytes [Lower, Upper) of the block files the BlockRefs name, one after
\* the other
RECURSIVE RangeBytes(_)
RangeBytes(refs) ==
    IF refs = <<>> THEN <<>>
    ELSE LET ref == Head(refs)
         IN  SubSeq(blockFiles[blockPath(ref.Block)], ref.Lower + 1, ref.Upper)
                \o RangeBytes(Tail(refs))

\* a PutBlock that has returned its BlockRefs has left no file under tmp/
NoTmpAfterPut ==
    \A p \in Puts :
        put[p].pc = "done" => \A name \in DOMAIN tmpFiles : name[1] # p

\* the ranges of the BlockRefs of a PutBlock that is done are the input, for
\* an input that is empty or ends in a newline
RoundTripWithNewline ==
    \A p \in Puts :
        put[p].pc = "done" =>
            \A bytes \in RawInputs :
                (/\ ScanLines(bytes) = put[p].stream
                 /\ bytes # <<>> => bytes[Len(bytes)] = Newline)
                    => RangeBytes(put[p].refs) = bytes

\* C39: the byte ranges of the BlockRefs a PutBlock has returned, one after the
\* other, are the bytes of its input stream, whatever the input; and the call
\* has left no file under tmp/.
PutBlockRoundTrip ==
    \A p \in Puts :
        put[p].pc = "done" =>
            /\ \A bytes \in RawInputs :
                  ScanLines(bytes) = put[p].stream => RangeBytes(put[p].refs) = bytes
            /\ \A name \in DOMAIN tmpFiles : name[1] # p

\* the inode numbers are assigned once and to one key each
InodesStable ==
    [][/\ \A k \in DOMAIN ino.inodes :
             k \in DOMAIN ino'.inodes /\ ino'.inodes[k] = ino.inodes[k]
       /\ \A k1, k2 \in DOMAIN ino'.inodes :
             ino'.inodes[k1] = ino'.inodes[k2] => k1 = k2
       /\ \A p \in Callers :
             (ino'.pc[p] = "returned" /\ ino.pc[p] # "returned")
                => ino'.result[p] = <<ino'.inodes[key(ino.file[p])]>>
      ]_vars

\* C40: the write lock of the inode table is held only by a call that is
\* between its Lock and its Unlock: no call has returned with the lock, so a
\* call that waits for the lock gets it.
InodeLockReleased ==
    \A p \in Callers : ino.writer = p => ino.pc[p] = "locked"

====
